---- MODULE Spec2Model ----
(***************************************************************************)
(* elftree: the dependency-graph builder (main.go) and the tree navigator  *)
(* (tui.go).                                                               *)
(*                                                                         *)
(* A Go string that is used as a name or a path is represented by the      *)
(* sequence of its "/"-separated components: "libc.so" is <<"libc.so">>,   *)
(* "sub/libx.so" is <<"sub", "libx.so">> and "/lib/libc.so" is             *)
(* <<"", "lib", "libc.so">> (a leading empty component marks an absolute   *)
(* path).  The empty string is <<>>.  Pointers are positive indices into   *)
(* the sequence of allocated objects, nil is 0.                            *)
(***************************************************************************)
EXTENDS Integers, Sequences, FiniteSets, TLC

VARIABLES
    pc,         \* position of the process: "init", "main", "loop", "tui", "exit0", "exit1", "exit2", "resolve", "resolved"
    world,      \* the environment of the run: file system, LD_LIBRARY_PATH, ld.so.conf directories, argument
                \* (and, where init is run, the configuration files conflib is read from)
    deps,       \* map[string]DepsInfo (main.go:443)
    deps_list,  \* []*DepsNode, the worklist (main.go:444)
    nodes,      \* the allocated DepsNode objects; deps_root is nodes[1]
    dequeued,   \* the nodes popped from the worklist so far, in order
    diag,       \* number of diagnostic lines printed
    shown,      \* what has been presented: "none", "tui" or "stdio"
    items,      \* the allocated TreeItem objects of the dependency pane
    tv,         \* the dependency pane (TreeView)
    iv,         \* the detail pane (TreeView)
    mode,       \* detail mode (tui.go:59)
    finfo, yinfo, dinfo, sinfo,  \* map[string]FileInfo (tui.go:60-63)
    last,       \* the last command handled by the event loop
    req,        \* the arguments of a stand-alone findLib call
    found       \* the result of a stand-alone findLib call

vars == <<pc, world, deps, deps_list, nodes, dequeued, diag, shown, items, tv, iv,
          mode, finfo, yinfo, dinfo, sinfo, last, req, found>>

buildVars == <<deps, deps_list, nodes, dequeued, diag, shown>>
tuiVars == <<items, tv, iv, mode, finfo, yinfo, dinfo, sinfo, last>>

(***************************************************************************)
(* Bounds                                                                  *)
(***************************************************************************)
MaxNeeded == 2       \* longest needed-library list of a generated binary
MaxPos == 3          \* cap of the horizontal offset
MaxTermHeight == 6   \* tallest terminal

nil == 0
NoStr == <<>>

Max(a, b) == IF a > b THEN a ELSE b
Min(a, b) == IF a < b THEN a ELSE b

RECURSIVE SumSeq(_)
SumSeq(s) == IF s = <<>> THEN 0 ELSE Head(s) + SumSeq(Tail(s))

Range(s) == {s[i] : i \in DOMAIN s}

(***************************************************************************)
(* Strings and paths                                                       *)
(***************************************************************************)
\* strings.Contains(name, "/")
ContainsSlash(name) == Len(name) > 1

\* path.Clean, as far as path.Join needs it: empty components other than
\* the leading one of an absolute path are dropped
RECURSIVE DropEmpty(_)
DropEmpty(s) ==
    IF s = <<>> THEN <<>>
    ELSE IF Head(s) = "" THEN DropEmpty(Tail(s))
    ELSE <<Head(s)>> \o DropEmpty(Tail(s))

Clean(s) ==
    IF s = <<>> THEN <<>>
    ELSE IF Head(s) = "" THEN <<"">> \o DropEmpty(Tail(s))
    ELSE DropEmpty(s)

\* path.Join(dir, name): empty elements are ignored, the result is cleaned
Join(dir, name) ==
    IF dir = NoStr THEN Clean(name)
    ELSE IF name = NoStr THEN Clean(dir)
    ELSE Clean(dir \o name)

\* path.Base(pathname)
Base(pathname) == IF pathname = NoStr THEN <<".">> ELSE <<pathname[Len(pathname)]>>

IsAbs(p) == p # NoStr /\ p[1] = ""

\* filepath.Abs(p): a relative path is joined to the working directory
Abs(w, p) == IF IsAbs(p) THEN Clean(p) ELSE Join(w.cwd, p)

\* os.Stat(p) returns no error: p names an existing file of any type
Stat(w, p) == Abs(w, p) \in DOMAIN w.fs

\* realPath (main.go:566-575).  The errors of EvalSymlinks and Abs are
\* dropped: a path that does not exist evaluates to "" and Abs("") is the
\* working directory.
realPath(w, pathname) ==
    IF pathname = NoStr THEN NoStr
    ELSE LET relpath == IF Stat(w, pathname) THEN pathname ELSE NoStr
         IN  Abs(w, relpath)

(***************************************************************************)
(* The library resolver                                                    *)
(***************************************************************************)
\* deflib (main.go:494)
deflib == << <<"", "lib", "">>, <<"", "usr", "lib", "">>, <<"", "lib64">>, <<"", "usr", "lib64">> >>

\* prog, sect, dsym and syms are the lengths of the slices of that name
ZeroInfo == [path |-> NoStr, kind |-> "ET_NONE", libs |-> <<>>, dyns |-> <<>>,
             prog |-> 0, sect |-> 0, dsym |-> 0, syms |-> 0]

\* deps[name]: a missing key reads as the zero DepsInfo
InfoOf(d, name) == IF name \in DOMAIN d THEN d[name] ELSE ZeroInfo

\* the values of the entries of dyns carrying the given tag, in order
RECURSIVE DynVals(_, _)
DynVals(dyns, tag) ==
    IF dyns = <<>> THEN <<>>
    ELSE IF Head(dyns).tag = tag THEN <<Head(dyns).val>> \o DynVals(Tail(dyns), tag)
    ELSE DynVals(Tail(dyns), tag)

\* one search loop of findLib: stat path.Join(dir, name) for each directory
\* in turn and stop at the first that exists
RECURSIVE probe(_, _, _)
probe(w, dirs, name) ==
    IF dirs = <<>> THEN [ret |-> NoStr, stats |-> <<>>]
    ELSE LET fullpath == Join(Head(dirs), name)
         IN  IF Stat(w, fullpath) THEN [ret |-> fullpath, stats |-> <<fullpath>>]
             ELSE LET r == probe(w, Tail(dirs), name)
                  IN  [ret |-> r.ret, stats |-> <<fullpath>> \o r.stats]

\* run the next search loop unless an earlier one has returned
thenProbe(acc, w, dirs, name) ==
    IF acc.ret # NoStr THEN acc
    ELSE LET r == probe(w, dirs, name)
         IN  [ret |-> r.ret, stats |-> acc.stats \o r.stats]

SwappedEnvRunpath(w, d, ns, name, parent) ==
    IF ContainsSlash(name) THEN [ret |-> name, stats |-> <<>>]
    ELSE LET info == IF parent # nil THEN InfoOf(d, ns[parent].name) ELSE ZeroInfo
             s0 == [ret |-> NoStr, stats |-> <<>>]
             s1 == thenProbe(s0, w, DynVals(info.dyns, "DT_RPATH"), name)
             s2 == thenProbe(s1, w, DynVals(info.dyns, "DT_RUNPATH"), name)
             s3 == thenProbe(s2, w, w.envlib, name)
             s4 == thenProbe(s3, w, w.conflib, name)
         IN  thenProbe(s4, w, deflib, name)

SearchesSlashNames(w, d, ns, name, parent) ==
    LET info == IF parent # nil THEN InfoOf(d, ns[parent].name) ELSE ZeroInfo
        s0 == [ret |-> NoStr, stats |-> <<>>]
        s1 == thenProbe(s0, w, DynVals(info.dyns, "DT_RPATH"), name)
        s2 == thenProbe(s1, w, w.envlib, name)
        s3 == thenProbe(s2, w, DynVals(info.dyns, "DT_RUNPATH"), name)
        s4 == thenProbe(s3, w, w.conflib, name)
    IN  thenProbe(s4, w, deflib, name)

\* findLib (main.go:505-564).  ret is the returned string, stats the
\* sequence of paths handed to os.Stat.  w.envlib is
\* strings.Split(envlib, ":").
findLibCall(w, d, ns, name, parent) ==
    IF ContainsSlash(name) THEN [ret |-> name, stats |-> <<>>]
    ELSE LET info == IF parent # nil THEN InfoOf(d, ns[parent].name) ELSE ZeroInfo
             s0 == [ret |-> NoStr, stats |-> <<>>]
             s1 == thenProbe(s0, w, DynVals(info.dyns, "DT_RPATH"), name)
             s2 == thenProbe(s1, w, w.envlib, name)
             s3 == thenProbe(s2, w, DynVals(info.dyns, "DT_RUNPATH"), name)
             s4 == thenProbe(s3, w, w.conflib, name)
         IN  thenProbe(s4, w, deflib, name)

findLib(w, d, ns, name, parent) == findLibCall(w, d, ns, name, parent).ret

(***************************************************************************)
(* Binaries                                                                *)
(*                                                                         *)
(* An entry of the file system is a record: ftype is "dir" or "file"; elf  *)
(* tells whether elf.Open accepts the file; type is the object type;       *)
(* dynamic and dynstr tell whether the sections .dynamic and .dynstr are   *)
(* present; entries is the dynamic section as (tag, val) pairs, where the  *)
(* val of a string-valued tag is an offset into strtab; strtab is the      *)
(* string table, offset i holding strtab[i]; libsErr, isymErr and dsymErr  *)
(* tell whether ImportedLibraries, ImportedSymbols and DynamicSymbols      *)
(* fail; stripped tells whether Symbols fails; interp tells whether the    *)
(* section .interp is present; prog and sect are the numbers of program    *)
(* and section headers, dsym and symtab the numbers of dynamic and of       *)
(* normal symbols.                                                         *)
(***************************************************************************)
StringTags == {"DT_NEEDED", "DT_RPATH", "DT_RUNPATH", "DT_SONAME"}

\* a tag number that is none of the named tags
UnknownTag == "0x6abcdef0"

\* elf.Open(path) (main.go:651, 777)
Open(w, path) ==
    IF path = NoStr \/ ~Stat(w, path) THEN [err |-> TRUE, f |-> nil]
    ELSE LET e == w.fs[Abs(w, path)]
         IN  IF e.ftype # "file" \/ ~e.elf THEN [err |-> TRUE, f |-> nil]
             ELSE [err |-> FALSE, f |-> e]

\* readElfString (main.go:577-585): an offset beyond the table indexes the
\* byte slice out of range, which panics
readElfString(strtab, i) ==
    IF i \in DOMAIN strtab THEN [panic |-> FALSE, s |-> strtab[i]]
    ELSE [panic |-> TRUE, s |-> NoStr]

\* the loop of readDynamic (main.go:605-635): a DT_NULL entry appends
\* nothing and the loop carries on with the next entry
RECURSIVE decodeEntries(_, _)
decodeEntries(entries, stab) ==
    IF entries = <<>> THEN [panic |-> FALSE, dyns |-> <<>>]
    ELSE LET e == Head(entries)
             rest == decodeEntries(Tail(entries), stab)
         IN  IF e.tag = "DT_NULL" THEN rest
             ELSE IF e.tag \in StringTags
             THEN LET sval == readElfString(stab, e.val)
                  IN  IF sval.panic \/ rest.panic THEN [panic |-> TRUE, dyns |-> <<>>]
                      ELSE [panic |-> FALSE,
                            dyns |-> <<[tag |-> e.tag, val |-> sval.s]>> \o rest.dyns]
             ELSE IF rest.panic THEN rest
             ELSE [panic |-> FALSE, dyns |-> <<[tag |-> e.tag, val |-> e.val]>> \o rest.dyns]

ReadsNamedTagsOnly(f) ==
    IF ~f.dynamic THEN [ret |-> -1, panic |-> FALSE, dyns |-> <<>>]
    ELSE IF ~f.dynstr THEN [ret |-> 0, panic |-> TRUE, dyns |-> <<>>]
    ELSE LET r == decodeEntries(SelectSeq(f.entries, LAMBDA e : e.tag # UnknownTag), f.strtab)
         IN  [ret |-> 0, panic |-> r.panic, dyns |-> r.dyns]

\* readDynamic (main.go:587-637).  f.Section(".dynstr") is nil when the
\* section is absent and str.Data() then dereferences nil.
readDynamic(f) ==
    IF ~f.dynamic THEN [ret |-> -1, panic |-> FALSE, dyns |-> <<>>]
    ELSE IF ~f.dynstr THEN [ret |-> 0, panic |-> TRUE, dyns |-> <<>>]
    ELSE LET r == decodeEntries(f.entries, f.strtab)
         IN  [ret |-> 0, panic |-> r.panic, dyns |-> r.dyns]

\* f.ImportedLibraries() (main.go:678): the strings of the DT_NEEDED entries
ImportedLibraries(f) ==
    LET r == decodeEntries(SelectSeq(f.entries, LAMBDA e : e.tag = "DT_NEEDED"), f.strtab)
    IN  [err |-> f.libsErr, libs |-> r.dyns]

(***************************************************************************)
(* The dependency-graph builder                                            *)
(***************************************************************************)
NewNode(name, parent, depth) ==
    [name |-> name, parent |-> parent, child |-> <<>>, depth |-> depth]

Running(d, dl, ns) ==
    [status |-> "ok", deps |-> d, deps_list |-> dl, nodes |-> ns, diag |-> 0]

Exit1(d, dl, ns) ==
    [status |-> "exit1", deps |-> d, deps_list |-> dl, nodes |-> ns, diag |-> 1]

Panic(d, dl, ns) ==
    [status |-> "panic", deps |-> d, deps_list |-> dl, nodes |-> ns, diag |-> 0]

AppendToBack(d, dl, ns, dep, info) ==
    LET k == Len(info.libs)
        base == Len(ns)
        L == [i \in 1..k |-> base + i]
        N == [i \in 1..k |-> NewNode(info.libs[i], dep, ns[dep].depth + 1)]
        ns1 == [ns EXCEPT ![dep].child = @ \o L] \o N
        d1 == [n \in DOMAIN d \cup {ns[dep].name} |->
                  IF n = ns[dep].name THEN info ELSE d[n]]
    IN  Running(d1, dl \o L, ns1)

ReversedToFront(d, dl, ns, dep, info) ==
    LET k == Len(info.libs)
        base == Len(ns)
        L == [i \in 1..k |-> base + i]
        N == [i \in 1..k |-> NewNode(info.libs[i], dep, ns[dep].depth + 1)]
        ns1 == [ns EXCEPT ![dep].child = @ \o L] \o N
        d1 == [n \in DOMAIN d \cup {ns[dep].name} |->
                  IF n = ns[dep].name THEN info ELSE d[n]]
    IN  Running(d1, [i \in 1..k |-> base + k + 1 - i] \o dl, ns1)

RecordOnlyWithChildren(d, dl, ns, dep, info) ==
    LET k == Len(info.libs)
        base == Len(ns)
        L == [i \in 1..k |-> base + i]
        N == [i \in 1..k |-> NewNode(info.libs[i], dep, ns[dep].depth + 1)]
        ns1 == [ns EXCEPT ![dep].child = @ \o L] \o N
        d1 == [n \in DOMAIN d \cup {ns[dep].name} |->
                  IF n = ns[dep].name THEN info ELSE d[n]]
    IN  Running(IF k = 0 THEN d ELSE d1, L \o dl, ns1)

ChildrenWithoutRecord(d, dl, ns, dep, info) ==
    LET k == Len(info.libs)
        base == Len(ns)
        L == [i \in 1..k |-> base + i]
        N == [i \in 1..k |-> NewNode(info.libs[i], dep, ns[dep].depth + 1)]
        ns1 == [ns EXCEPT ![dep].child = @ \o L] \o N
    IN  Running(d, L \o dl, ns1)

\* main.go:705-717: the children of dep, one per needed name, are put in
\* front of the worklist and the metadata record is stored
attachChildren(d, dl, ns, dep, info) ==
    LET k == Len(info.libs)
        base == Len(ns)
        L == [i \in 1..k |-> base + i]
        N == [i \in 1..k |-> NewNode(info.libs[i], dep, ns[dep].depth + 1)]
        ns1 == [ns EXCEPT ![dep].child = @ \o L] \o N
        d1 == [n \in DOMAIN d \cup {ns[dep].name} |->
                  IF n = ns[dep].name THEN info ELSE d[n]]
    IN  Running(d1, L \o dl, ns1)

AnyType(f) == TRUE

\* main.go:668: the object is an executable or a shared object
validType(f) == f.type \in {"ET_EXEC", "ET_DYN"}

\* main.go:673-717: the object has been opened and its type accepted
loadDep(w, d, dl, ns, dep, path, f, rd, il) ==
    IF rd.panic THEN Panic(d, dl, ns)
    ELSE IF rd.ret < 0 THEN Exit1(d, dl, ns)
    ELSE IF il.err THEN Exit1(d, dl, ns)
    ELSE IF f.isymErr THEN Exit1(d, dl, ns)
    ELSE IF f.dsymErr THEN Exit1(d, dl, ns)
    ELSE attachChildren(d, dl, ns, dep,
             [path |-> path, kind |-> f.type,
              libs |-> [i \in DOMAIN il.libs |-> il.libs[i].val],
              dyns |-> rd.dyns, prog |-> f.prog, sect |-> f.sect, dsym |-> f.dsym,
              syms |-> IF f.stripped THEN 0 ELSE f.symtab])

\* main.go:651-671: open the object at path and check its type
openDep(w, d, dl, ns, dep, path, o) ==
    IF o.err THEN Exit1(d, dl, ns)
    ELSE IF ~validType(o.f) THEN Exit1(d, dl, ns)
    ELSE loadDep(w, d, dl, ns, dep, path, o.f, readDynamic(o.f), ImportedLibraries(o.f))

\* main.go:645-649: the path of the object
pathOfDep(w, d, ns, dep, found0) ==
    IF ns[dep].parent = nil THEN realPath(w, w.args0) ELSE found0

locateDep(w, d, dl, ns, dep, path) == openDep(w, d, dl, ns, dep, path, Open(w, path))

RequeuesRepeat(w, d, dl, ns, dep) ==
    IF ns[dep].name \in DOMAIN d THEN Running(d, Append(dl, dep), ns)
    ELSE locateDep(w, d, dl, ns, dep,
             pathOfDep(w, d, ns, dep,
                 realPath(w, findLib(w, d, ns, ns[dep].name, ns[dep].parent))))

RewritesRecord(w, d, dl, ns, dep) ==
    IF ns[dep].name \in DOMAIN d
    THEN Running([d EXCEPT ![ns[dep].name].libs = <<>>], dl, ns)
    ELSE locateDep(w, d, dl, ns, dep,
             pathOfDep(w, d, ns, dep,
                 realPath(w, findLib(w, d, ns, ns[dep].name, ns[dep].parent))))

ResolvesFromRoot(w, d, dl, ns, dep) ==
    IF ns[dep].name \in DOMAIN d THEN Running(d, dl, ns)
    ELSE locateDep(w, d, dl, ns, dep,
             pathOfDep(w, d, ns, dep,
                 realPath(w, findLib(w, d, ns, ns[dep].name, 1))))

\* processDep (main.go:639-718); dl is the worklist after the pop
processDep(w, d, dl, ns, dep) ==
    IF ns[dep].name \in DOMAIN d THEN Running(d, dl, ns)
    ELSE locateDep(w, d, dl, ns, dep,
             pathOfDep(w, d, ns, dep,
                 realPath(w, findLib(w, d, ns, ns[dep].name, ns[dep].parent))))

\* the worklist loop of main (main.go:791-798) run to its end; dq collects
\* the popped nodes
RECURSIVE runLoop(_, _, _)
runLoop(w, st, dq) ==
    IF st.status # "ok" \/ st.deps_list = <<>> THEN [st |-> st, dequeued |-> dq]
    ELSE runLoop(w, processDep(w, st.deps, Tail(st.deps_list), st.nodes, Head(st.deps_list)),
                 Append(dq, Head(st.deps_list)))

EmptyMap == [n \in {} |-> ZeroInfo]

\* main.go:788-791: deps_root and the initial worklist
deps_root == 1
startLoop(w) == Running(EmptyMap, <<deps_root>>, <<NewNode(Base(w.args0), nil, 0)>>)

(***************************************************************************)
(* The runs that are explored                                              *)
(***************************************************************************)
LibNames == {"b", "c", "d"}
RootPath == <<"", "bin", "a">>
WorkDir == <<"", "w">>
LibPath(n) == <<"", "lib", n>>

\* the needed-library lists: sequences of distinct library names
NeedSeqs ==
    {s \in UNION {[1..k -> LibNames] : k \in 0..MaxNeeded} :
        \A i, j \in DOMAIN s : i # j => s[i] # s[j]}

\* a well-formed dynamically linked binary
MkFile(type, needs, rpaths, runpaths) ==
    LET nn == Len(needs)
        nr == Len(rpaths)
        nu == Len(runpaths)
    IN  [ftype |-> "file", elf |-> TRUE, type |-> type,
         dynamic |-> TRUE, dynstr |-> TRUE,
         entries |-> [i \in 1..nn |-> [tag |-> "DT_NEEDED", val |-> i]]
                     \o [i \in 1..nr |-> [tag |-> "DT_RPATH", val |-> nn + i]]
                     \o [i \in 1..nu |-> [tag |-> "DT_RUNPATH", val |-> nn + nr + i]]
                     \o <<[tag |-> "DT_FLAGS", val |-> 8], [tag |-> "DT_NULL", val |-> 0]>>,
         strtab |-> [i \in 1..nn |-> <<needs[i]>>] \o rpaths \o runpaths,
         libsErr |-> FALSE, isymErr |-> FALSE, dsymErr |-> FALSE, stripped |-> FALSE,
         interp |-> type = "ET_EXEC",
         prog |-> IF type = "ET_EXEC" THEN 2 ELSE 1, sect |-> 2, dsym |-> nn, symtab |-> 1]

Directory == [MkFile("ET_NONE", <<>>, <<>>, <<>>) EXCEPT !.ftype = "dir", !.elf = FALSE]

DefectKinds == {"missing", "isdir", "notelf", "badtype", "nodynamic", "nodynstr",
                "badoff", "afternull", "unknowntag", "libsErr", "isymErr", "dsymErr",
                "stripped", "nointerp"}

Damage(f, kind) ==
    CASE kind = "isdir" -> Directory
      [] kind = "notelf" -> [f EXCEPT !.elf = FALSE]
      [] kind = "badtype" -> [f EXCEPT !.type = "ET_REL"]
      [] kind = "nodynamic" -> [f EXCEPT !.dynamic = FALSE, !.dynstr = FALSE, !.entries = <<>>]
      [] kind = "nodynstr" -> [f EXCEPT !.dynstr = FALSE]
      [] kind = "badoff" -> [f EXCEPT !.entries = <<[tag |-> "DT_SONAME", val |-> Len(f.strtab) + 1]>> \o @]
      [] kind = "afternull" -> [f EXCEPT !.entries = @ \o <<[tag |-> "DT_FLAGS", val |-> 9]>>]
      [] kind = "unknowntag" -> [f EXCEPT !.entries = <<[tag |-> UnknownTag, val |-> 7]>> \o @]
      [] kind = "libsErr" -> [f EXCEPT !.libsErr = TRUE]
      [] kind = "isymErr" -> [f EXCEPT !.isymErr = TRUE]
      [] kind = "dsymErr" -> [f EXCEPT !.dsymErr = TRUE]
      [] kind = "stripped" -> [f EXCEPT !.stripped = TRUE]
      [] kind = "nointerp" -> [f EXCEPT !.interp = FALSE]
      [] OTHER -> f

NoDefect == [path |-> NoStr, kind |-> "none"]

\* the run of /bin/a, whose libraries live in /lib; needs gives the needed
\* names of the root ("a") and of each library; one file may be damaged
MkWorld(needs, defect) ==
    LET paths == {RootPath} \cup {LibPath(n) : n \in LibNames}
        file(p) == IF p = RootPath THEN MkFile("ET_EXEC", needs["a"], <<>>, <<>>)
                   ELSE MkFile("ET_DYN", needs[p[3]], <<>>, <<>>)
        present == IF defect.kind = "missing" THEN paths \ {defect.path} ELSE paths
    IN  [fs |-> [p \in present |-> IF p = defect.path THEN Damage(file(p), defect.kind) ELSE file(p)],
         envlib |-> <<NoStr>>, conflib |-> <<>>, args0 |-> RootPath, cwd |-> WorkDir]

Defects ==
    {NoDefect} \cup {[path |-> p, kind |-> k] :
                        p \in {RootPath} \cup {LibPath(n) : n \in LibNames}, k \in DefectKinds}

\* "d" needs nothing
NeedFuns ==
    {[n \in {"a"} \cup LibNames |-> IF n = "a" THEN f[1] ELSE IF n = "b" THEN f[2]
                                    ELSE IF n = "c" THEN f[3] ELSE <<>>] :
        f \in [1..3 -> NeedSeqs]}

\* three graphs: a diamond, a chain with a shortcut, and two libraries that
\* need each other
Diamond == [n \in {"a", "b", "c", "d"} |->
              CASE n = "a" -> <<"b", "c">> [] n = "b" -> <<"d">> [] n = "c" -> <<"d">> [] OTHER -> <<>>]
Chain == [n \in {"a", "b", "c", "d"} |->
              CASE n = "a" -> <<"b", "d">> [] n = "b" -> <<"c">> [] n = "c" -> <<"d">> [] OTHER -> <<>>]
Shared == [n \in {"a", "b", "c", "d"} |->
              CASE n = "a" -> <<"b", "c">> [] n = "b" -> <<"c", "d">> [] n = "c" -> <<"d", "b">> [] OTHER -> <<>>]

\* the graphs that are also run with a damaged file
DefectGraphs == {nf \in NeedFuns : \A n \in DOMAIN nf : Len(nf[n]) <= 1} \cup {Diamond, Chain, Shared}

BuildWorlds ==
    {MkWorld(nf, NoDefect) : nf \in NeedFuns}
        \cup {MkWorld(nf, df) : nf \in DefectGraphs, df \in Defects}

(***************************************************************************)
(* The build as a process                                                  *)
(***************************************************************************)
NoView == [Root |-> nil, Top |-> nil, Curr |-> nil, idx |-> 0, off |-> 0, pos |-> 0, rows |-> 0]
\* a detail tree is the sequence of its TreeItems, the root first; the nil
\* tree has none
NilDetail == <<>>
ZeroFileInfo == [Root |-> NilDetail, idx |-> 0, off |-> 0, pos |-> 0]
NoDetailView == [Root |-> NilDetail, Top |-> nil, Curr |-> nil, idx |-> 0, off |-> 0, pos |-> 0, rows |-> 0]
NoReq == [name |-> NoStr, parent |-> nil]
NoFound == [ret |-> NoStr, stats |-> <<>>]
NoInfoMap == [n \in {} |-> nil]

IdleTui ==
    /\ items = <<>>
    /\ tv = NoView
    /\ iv = NoDetailView
    /\ mode = 0
    /\ finfo = NoInfoMap /\ yinfo = NoInfoMap /\ dinfo = NoInfoMap /\ sinfo = NoInfoMap
    /\ last = "none"

InitBuild ==
    /\ world \in BuildWorlds
    /\ pc = "main"
    /\ deps = EmptyMap
    /\ deps_list = <<>>
    /\ nodes = <<>>
    /\ dequeued = <<>>
    /\ diag = 0
    /\ shown = "none"
    /\ IdleTui
    /\ req = NoReq
    /\ found = NoFound

\* main.go:776-791: open the argument, then seed the worklist
MainOpen ==
    /\ pc = "main"
    /\ IF Open(world, world.args0).err
       THEN /\ pc' = "exit1"
            /\ diag' = diag + 1
            /\ UNCHANGED <<deps, deps_list, nodes>>
       ELSE LET st == startLoop(world)
            IN  /\ pc' = "loop"
                /\ deps' = st.deps
                /\ deps_list' = st.deps_list
                /\ nodes' = st.nodes
                /\ diag' = diag
    /\ UNCHANGED <<world, dequeued, shown, tuiVars, req, found>>

\* main.go:792-798: pop the first element and process it
LoopStep ==
    /\ pc = "loop"
    /\ deps_list # <<>>
    /\ LET dep == Head(deps_list)
           st == processDep(world, deps, Tail(deps_list), nodes, dep)
       IN  /\ dequeued' = Append(dequeued, dep)
           /\ deps' = st.deps
           /\ deps_list' = st.deps_list
           /\ nodes' = st.nodes
           /\ diag' = diag + st.diag
           /\ pc' = CASE st.status = "ok" -> "loop"
                      [] st.status = "exit1" -> "exit1"
                      [] OTHER -> "exit2"
    /\ UNCHANGED <<world, shown, tuiVars, req, found>>

(***************************************************************************)
(* The presentation tree                                                   *)
(***************************************************************************)
RECURSIVE makeDepsItemsAt(_, _, _, _), makeChildItems(_, _, _, _, _)

ItemsWithOwnCountOnly(ns, dep, parent, id) ==
    LET kids == ns[dep].child
        sub == makeChildItems(ns, kids, id, nil, id + 1)
        item == [node |-> dep, parent |-> parent, prev |-> nil, next |-> nil,
                 child |-> IF kids = <<>> THEN nil ELSE id + 1,
                 folded |-> FALSE, total |-> Len(kids)]
    IN  <<item>> \o sub.items

\* makeDepsItems (tui.go:465-484): the items of the subtree of dep, in
\* allocation order; the first one, item number id, wraps dep
makeDepsItemsAt(ns, dep, parent, id) ==
    LET kids == ns[dep].child
        sub == makeChildItems(ns, kids, id, nil, id + 1)
        item == [node |-> dep, parent |-> parent, prev |-> nil, next |-> nil,
                 child |-> IF kids = <<>> THEN nil ELSE id + 1,
                 folded |-> FALSE, total |-> Len(kids) + sub.total]
    IN  <<item>> \o sub.items

\* the loop over dep.child (tui.go:469-482): link each child to the
\* previous one and add up the totals
makeChildItems(ns, kids, parent, prev, id) ==
    IF kids = <<>> THEN [items |-> <<>>, total |-> 0]
    ELSE LET c == makeDepsItemsAt(ns, Head(kids), parent, id)
             nxt == id + Len(c)
             rest == makeChildItems(ns, Tail(kids), parent, id, nxt)
             c1 == [c EXCEPT ![1].prev = prev,
                             ![1].next = IF Tail(kids) = <<>> THEN nil ELSE nxt]
         IN  [items |-> c1 \o rest.items, total |-> c[1].total + rest.total]

makeDepsItems(ns, dep) == makeDepsItemsAt(ns, dep, nil, 1)

\* the last sibling of ti (tui.go:105-107)
RECURSIVE lastSibling(_, _)
lastSibling(its, ti) == IF its[ti].next = nil THEN ti ELSE lastSibling(its, its[ti].next)

RECURSIVE lastDescendant(_, _)
lastDescendant(its, ti) ==
    IF its[ti].child = nil THEN ti
    ELSE lastDescendant(its, lastSibling(its, its[ti].child))

\* tui.go:99-108: the last shown row of the subtree of ti
RECURSIVE lastShown(_, _)
lastShown(its, ti) ==
    IF its[ti].child = nil \/ its[ti].folded THEN ti
    ELSE lastShown(its, lastSibling(its, its[ti].child))

\* TreeItem.prevItem (tui.go:91-110)
prevItem(its, ti) ==
    IF its[ti].prev = nil THEN its[ti].parent
    ELSE lastShown(its, its[ti].prev)

\* tui.go:114-121: the next sibling of the closest ancestor that has one
RECURSIVE nextUp(_, _)
nextUp(its, ti) ==
    IF ti = nil THEN nil
    ELSE IF its[ti].next # nil THEN its[ti].next
    ELSE nextUp(its, its[ti].parent)

NextIntoFolded(its, ti) ==
    IF its[ti].child = nil THEN nextUp(its, ti)
    ELSE its[ti].child

\* TreeItem.nextItem (tui.go:112-124)
nextItem(its, ti) ==
    IF its[ti].child = nil \/ its[ti].folded THEN nextUp(its, ti)
    ELSE its[ti].child

\* the children of ti, following next from child
RECURSIVE siblingsFrom(_, _)
siblingsFrom(its, c) == IF c = nil THEN <<>> ELSE <<c>> \o siblingsFrom(its, its[c].next)
Children(its, ti) == siblingsFrom(its, its[ti].child)

\* the proper ancestors of ti, following parent
RECURSIVE Ancestors(_, _)
Ancestors(its, ti) ==
    IF its[ti].parent = nil THEN {} ELSE {its[ti].parent} \cup Ancestors(its, its[ti].parent)

ExpandOwnOnly(its, ti) ==
    IF ~its[ti].folded \/ its[ti].child = nil THEN its
    ELSE LET kids == Children(its, ti)
             total == its[ti].total + SumSeq([i \in DOMAIN kids |-> its[kids[i]].total + 1])
         IN  [x \in DOMAIN its |->
                IF x = ti THEN [its[x] EXCEPT !.total = total, !.folded = FALSE]
                ELSE its[x]]

\* TreeItem.expand (tui.go:126-140)
expand(its, ti) ==
    IF ~its[ti].folded \/ its[ti].child = nil THEN its
    ELSE LET kids == Children(its, ti)
             total == its[ti].total + SumSeq([i \in DOMAIN kids |-> its[kids[i]].total + 1])
             anc == Ancestors(its, ti)
         IN  [x \in DOMAIN its |->
                IF x = ti THEN [its[x] EXCEPT !.total = total, !.folded = FALSE]
                ELSE IF x \in anc THEN [its[x] EXCEPT !.total = @ + total]
                ELSE its[x]]

FoldUnlinksChildren(its, ti) ==
    IF its[ti].folded \/ its[ti].child = nil THEN its
    ELSE LET anc == Ancestors(its, ti)
         IN  [x \in DOMAIN its |->
                IF x = ti THEN [its[x] EXCEPT !.total = 0, !.folded = TRUE, !.child = nil]
                ELSE IF x \in anc THEN [its[x] EXCEPT !.total = @ - its[ti].total]
                ELSE its[x]]

FoldFoldsChildren(its, ti) ==
    IF its[ti].folded \/ its[ti].child = nil THEN its
    ELSE LET anc == Ancestors(its, ti)
         IN  [x \in DOMAIN its |->
                IF x = ti THEN [its[x] EXCEPT !.total = 0, !.folded = TRUE]
                ELSE IF x \in anc THEN [its[x] EXCEPT !.total = @ - its[ti].total]
                ELSE IF its[x].parent = ti /\ its[x].child # nil
                THEN [its[x] EXCEPT !.total = 0, !.folded = TRUE]
                ELSE its[x]]

FoldKeepsTotal(its, ti) ==
    IF its[ti].folded \/ its[ti].child = nil THEN its
    ELSE LET anc == Ancestors(its, ti)
         IN  [x \in DOMAIN its |->
                IF x = ti THEN [its[x] EXCEPT !.folded = TRUE]
                ELSE IF x \in anc THEN [its[x] EXCEPT !.total = @ - its[ti].total]
                ELSE its[x]]

\* TreeItem.fold (tui.go:142-153)
fold(its, ti) ==
    IF its[ti].folded \/ its[ti].child = nil THEN its
    ELSE LET anc == Ancestors(its, ti)
         IN  [x \in DOMAIN its |->
                IF x = ti THEN [its[x] EXCEPT !.total = 0, !.folded = TRUE]
                ELSE IF x \in anc THEN [its[x] EXCEPT !.total = @ - its[ti].total]
                ELSE its[x]]

ToggleOnlyFolds(its, ti) == fold(its, ti)

\* TreeItem.toggle (tui.go:155-161)
toggle(its, ti) == IF its[ti].folded THEN expand(its, ti) ELSE fold(its, ti)

(***************************************************************************)
(* The panes                                                               *)
(***************************************************************************)
Crash == -1    \* the outcome of dereferencing a nil *TreeItem

nextOf(its, ti) == IF ti \in DOMAIN its THEN nextItem(its, ti) ELSE Crash
prevOf(its, ti) == IF ti \in DOMAIN its THEN prevItem(its, ti) ELSE Crash

\* for idx != target { ti = ti.nextItem(); idx++ } (tui.go:320-323, 332-335, 342-345)
RECURSIVE walkNext(_, _, _, _)
walkNext(its, ti, idx, target) ==
    IF idx = target THEN ti
    ELSE IF ti \notin DOMAIN its THEN Crash
    ELSE walkNext(its, nextItem(its, ti), idx + 1, target)

\* for idx != target { ti = ti.prevItem(); idx-- } (tui.go:366-369, 396-399)
RECURSIVE walkPrev(_, _, _, _)
walkPrev(its, ti, idx, target) ==
    IF idx = target THEN ti
    ELSE IF ti \notin DOMAIN its THEN Crash
    ELSE walkPrev(its, prevItem(its, ti), idx - 1, target)

\* for next := ti; next != nil; next = next.nextItem() { curr = next } (tui.go:389-391)
RECURSIVE walkEnd(_, _)
walkEnd(its, ti) ==
    IF ti \notin DOMAIN its THEN ti
    ELSE IF nextItem(its, ti) = nil THEN ti
    ELSE walkEnd(its, nextItem(its, ti))

Crashed(t) == t.Curr = Crash \/ t.Top = Crash

\* TreeView.Down (tui.go:286-295)
Down(its, t) ==
    LET t1 == IF t.idx < its[t.Root].total
              THEN [t EXCEPT !.idx = @ + 1, !.Curr = nextOf(its, t.Curr)]
              ELSE t
    IN  IF t1.idx - t1.off >= t1.rows
        THEN [t1 EXCEPT !.off = @ + 1, !.Top = nextOf(its, t1.Top)]
        ELSE t1

UpKeepsTop(its, t) ==
    LET t1 == IF t.idx > 0
              THEN [t EXCEPT !.idx = @ - 1, !.Curr = prevOf(its, t.Curr)]
              ELSE t
    IN  IF t1.idx < t1.off
        THEN [t1 EXCEPT !.off = t1.idx]
        ELSE t1

\* TreeView.Up (tui.go:297-306)
Up(its, t) ==
    LET t1 == IF t.idx > 0
              THEN [t EXCEPT !.idx = @ - 1, !.Curr = prevOf(its, t.Curr)]
              ELSE t
    IN  IF t1.idx < t1.off
        THEN [t1 EXCEPT !.off = t1.idx, !.Top = t1.Curr]
        ELSE t1

\* TreeView.PageDown (tui.go:308-347)
PageDown(its, t) ==
    LET bottom == Min(t.off + t.rows - 1, its[t.Root].total)
    IN  IF t.idx # bottom
        THEN [t EXCEPT !.idx = bottom, !.Curr = walkNext(its, t.Curr, t.idx, bottom)]
        ELSE LET idx == Min(t.idx + t.rows, its[t.Root].total)
                 t1 == [t EXCEPT !.idx = idx, !.Curr = walkNext(its, t.Curr, t.idx, idx)]
             IN  IF idx - t.off >= t.rows
                 THEN [t1 EXCEPT !.off = idx - t.rows + 1,
                                 !.Top = walkNext(its, t.Top, t.off, idx - t.rows + 1)]
                 ELSE t1

PageUpKeepsTop(its, t) ==
    IF t.idx # t.off
    THEN [t EXCEPT !.idx = t.off, !.Curr = t.Top]
    ELSE LET idx == Max(t.idx - t.rows, 0)
             curr == walkPrev(its, t.Curr, t.idx, idx)
         IN  [t EXCEPT !.idx = idx, !.Curr = curr]

\* TreeView.PageUp (tui.go:349-372)
PageUp(its, t) ==
    IF t.idx # t.off
    THEN [t EXCEPT !.idx = t.off, !.Curr = t.Top]
    ELSE LET idx == Max(t.idx - t.rows, 0)
             curr == walkPrev(its, t.Curr, t.idx, idx)
         IN  [t EXCEPT !.idx = idx, !.off = idx, !.Curr = curr, !.Top = curr]

\* TreeView.Home (tui.go:374-379)
Home(its, t) == [t EXCEPT !.idx = 0, !.off = 0, !.Curr = t.Root, !.Top = t.Root]

EndKeepsTop(its, t) ==
    LET idx == its[t.Root].total
        off == Max(idx - t.rows + 1, 0)
        curr == walkEnd(its, t.Curr)
    IN  [t EXCEPT !.idx = idx, !.off = off, !.Curr = curr]

\* TreeView.End (tui.go:381-402)
End(its, t) ==
    LET idx == its[t.Root].total
        off == Max(idx - t.rows + 1, 0)
        curr == walkEnd(its, t.Curr)
    IN  [t EXCEPT !.idx = idx, !.off = off, !.Curr = curr,
                  !.Top = walkPrev(its, curr, idx, off)]

\* TreeView.Left (tui.go:404-409)
Left(t, i) == [t EXCEPT !.pos = Max(@ - i, 0)]

\* TreeView.Right (tui.go:411-413)
Right(t, i) == [t EXCEPT !.pos = @ + i]

\* TreeView.Toggle (tui.go:415-417)
Toggle(its, t) == toggle(its, t.Curr)

MODE_FILE == 0
MODE_SYMBOL == 1
MODE_DYNAMIC == 2
MODE_SECTION == 3

\* the string a TreeItem of a detail tree shows: a fixed text, the name or
\* path printed after it, and the number of the row within its group
StrNode(label, arg, row) == [label |-> label, arg |-> arg, row |-> row]

\* &TreeItem{node: node, parent: parent} (tui.go:489, 506, 522)
NewItem(node, parent) ==
    [node |-> node, parent |-> parent, prev |-> nil, next |-> nil, child |-> nil,
     folded |-> FALSE, total |-> 0]

\* AddSubTree (tui.go:486-519) on the tree heap: the label item t becomes
\* the last child of parent, the rows become the children of t, and
\* len(items) + 1 is added to the total of t, which `parent` names by then
AddSubTree(heap, label, rows, parent) ==
    LET t == Len(heap) + 1
        n == Len(rows)
        p == IF heap[parent].child = nil THEN nil ELSE lastSibling(heap, heap[parent].child)
        linked == [x \in DOMAIN heap |->
                      IF x = parent /\ p = nil THEN [heap[x] EXCEPT !.child = t]
                      ELSE IF x = p THEN [heap[x] EXCEPT !.next = t]
                      ELSE heap[x]]
        head == [NewItem(StrNode(label, NoStr, 0), parent) EXCEPT
                    !.prev = p,
                    !.child = IF n = 0 THEN nil ELSE t + 1,
                    !.total = n + 1]
        texts == [i \in 1..n |->
                    [NewItem(rows[i], t) EXCEPT
                        !.prev = IF i = 1 THEN nil ELSE t + i - 1,
                        !.next = IF i = n THEN nil ELSE t + i + 1]]
    IN  linked \o <<head>> \o texts

\* root := &TreeItem{node: name} (tui.go:522, 551, 573, 583)
DetailRoot(name) == <<NewItem(StrNode("", name, 0), nil)>>

\* makeDynamicStrings: one string per dynamic entry
makeDynamicStrings(info) == [i \in DOMAIN info.dyns |-> StrNode(info.dyns[i].tag, NoStr, i)]

\* makeFileInfo (tui.go:521-548)
makeFileInfo(name, info) ==
    LET h1 == AddSubTree(DetailRoot(name), "", <<>>, 1)
        h2 == AddSubTree(h1, "File Info",
                         <<StrNode("  Path: ", info.path, 1), StrNode("  Type: ", <<info.kind>>, 2),
                           StrNode("  Data: ", NoStr, 3)>>, 1)
        h3 == AddSubTree(h2, "", <<>>, 1)
        h4 == AddSubTree(h3, "Program Info", [i \in 1..info.prog |-> StrNode("  ", NoStr, i)], 1)
        h5 == AddSubTree(h4, "", <<>>, 1)
        h6 == AddSubTree(h5, "Dependencies",
                         [i \in DOMAIN info.libs |-> StrNode("  ", info.libs[i], i)], 1)
    IN  [ZeroFileInfo EXCEPT !.Root = h6]

\* makeSymbolInfo (tui.go:550-570)
makeSymbolInfo(name, info) ==
    LET h1 == AddSubTree(DetailRoot(name), "", <<>>, 1)
        h2 == AddSubTree(h1, "Dynamic Symbols", [i \in 1..info.dsym |-> StrNode("", NoStr, i)], 1)
        h3 == AddSubTree(h2, "", <<>>, 1)
        h4 == AddSubTree(h3, "Symbols", [i \in 1..info.syms |-> StrNode("", NoStr, i)], 1)
    IN  [ZeroFileInfo EXCEPT !.Root = h4]

\* makeDynamicInfo (tui.go:572-580)
makeDynamicInfo(name, info) ==
    LET h1 == AddSubTree(DetailRoot(name), "", <<>>, 1)
        h2 == AddSubTree(h1, "Dynamic Info", makeDynamicStrings(info), 1)
    IN  [ZeroFileInfo EXCEPT !.Root = h2]

\* makeSectionInfo (tui.go:582-596): a header row, then one row per section
makeSectionInfo(name, info) ==
    LET h1 == AddSubTree(DetailRoot(name), "", <<>>, 1)
        h2 == AddSubTree(h1, "Section Info",
                         <<StrNode("   Idx Name", NoStr, 0)>>
                             \o [i \in 1..info.sect |-> StrNode("", NoStr, i)], 1)
    IN  [ZeroFileInfo EXCEPT !.Root = h2]

FileInfoOf(m, name) == IF name \in DOMAIN m THEN m[name] ELSE ZeroFileInfo

SavesCursorOfTree(ns, its, t, v, fi, yi, di) ==
    LET name == ns[its[t.Curr].node].name
    IN  [finfo |-> [fi EXCEPT ![name].idx = t.idx], yinfo |-> yi, dinfo |-> di,
         info |-> [FileInfoOf(di, name) EXCEPT !.off = v.off, !.idx = v.idx, !.pos = v.pos]]

\* saveInfoView (tui.go:598-621); fi, yi, di are the three maps it reads.
\* info is a copy of the map entry (the maps hold FileInfo values), the
\* assignments change the copy, and nothing is stored back: the maps are
\* as before and info, as it is on return, is dropped.
saveInfoView(ns, its, t, v, fi, yi, di) ==
    LET name == ns[its[t.Curr].node].name
    IN  [finfo |-> fi, yinfo |-> yi, dinfo |-> di,
         info |-> [FileInfoOf(di, name) EXCEPT !.off = v.off, !.idx = v.idx, !.pos = v.pos]]

RestoreCursorOfTree(ns, its, t, v, md, fi, yi, di, si) ==
    LET name == ns[its[t.Curr].node].name
        info == CASE md = MODE_FILE -> FileInfoOf(fi, name)
                  [] md = MODE_SYMBOL -> FileInfoOf(yi, name)
                  [] md = MODE_DYNAMIC -> FileInfoOf(di, name)
                  [] md = MODE_SECTION -> FileInfoOf(si, name)
                  [] OTHER -> ZeroFileInfo
    IN  [v EXCEPT !.Root = info.Root, !.off = info.off, !.idx = t.idx, !.pos = info.pos]

RestoreViewportOnly(ns, its, t, v, md, fi, yi, di, si) ==
    LET name == ns[its[t.Curr].node].name
        info == CASE md = MODE_FILE -> FileInfoOf(fi, name)
                  [] md = MODE_SYMBOL -> FileInfoOf(yi, name)
                  [] md = MODE_DYNAMIC -> FileInfoOf(di, name)
                  [] md = MODE_SECTION -> FileInfoOf(si, name)
                  [] OTHER -> ZeroFileInfo
    IN  [v EXCEPT !.off = info.off, !.idx = info.idx, !.pos = info.pos]

\* restoreInfoView (tui.go:623-644); fi, yi, di, si are the four maps
restoreInfoView(ns, its, t, v, md, fi, yi, di, si) ==
    LET name == ns[its[t.Curr].node].name
        info == CASE md = MODE_FILE -> FileInfoOf(fi, name)
                  [] md = MODE_SYMBOL -> FileInfoOf(yi, name)
                  [] md = MODE_DYNAMIC -> FileInfoOf(di, name)
                  [] md = MODE_SECTION -> FileInfoOf(si, name)
                  [] OTHER -> ZeroFileInfo
    IN  [v EXCEPT !.Root = info.Root, !.off = info.off, !.idx = info.idx, !.pos = info.pos]

\* resize (tui.go:646-663): the rows of a pane for a terminal of height h
rowsFor(h) == (h - 1) - 2

TermHeights == 4..MaxTermHeight

(***************************************************************************)
(* ShowWithTUI and the end of main                                         *)
(***************************************************************************)
\* ShowWithTUI up to the event loop (tui.go:665-707), in a terminal of
\* height h
ShowWithTUI(ns, d, h) ==
    LET its == makeDepsItems(ns, deps_root)
        t == [Root |-> 1, Top |-> 1, Curr |-> 1, idx |-> 0, off |-> 0, pos |-> 0, rows |-> 0]
        fi == [k \in DOMAIN d |-> makeFileInfo(k, d[k])]
        yi == [k \in DOMAIN d |-> makeSymbolInfo(k, d[k])]
        di == [k \in DOMAIN d |-> makeDynamicInfo(k, d[k])]
        si == [k \in DOMAIN d |-> makeSectionInfo(k, d[k])]
        v == restoreInfoView(ns, its, t, NoDetailView, MODE_FILE, fi, yi, di, si)
    IN  [items |-> its,
         tv |-> [t EXCEPT !.rows = rowsFor(h)],
         iv |-> [v EXCEPT !.rows = rowsFor(h)],
         mode |-> MODE_FILE, finfo |-> fi, yinfo |-> yi, dinfo |-> di, sinfo |-> si]

\* the interactive view s is entered
EnterTui(s) ==
    /\ items' = s.items
    /\ tv' = s.tv
    /\ iv' = s.iv
    /\ mode' = s.mode
    /\ finfo' = s.finfo /\ yinfo' = s.yinfo /\ dinfo' = s.dinfo /\ sinfo' = s.sinfo

\* main.go:800-805 with showTui set: enter the interactive view
FinishTui ==
    /\ pc = "loop"
    /\ deps_list = <<>>
    /\ \E h \in TermHeights : EnterTui(ShowWithTUI(nodes, deps, h))
    /\ pc' = "tui"
    /\ shown' = "tui"
    /\ UNCHANGED <<world, deps, deps_list, nodes, dequeued, diag, last, req, found>>

\* main.go:800-808 with -stdio: printDepTree (main.go:720-738) prints the
\* tree and, with -v, showDetails (main.go:740-765) follows
FinishStdio ==
    /\ pc = "loop"
    /\ deps_list = <<>>
    /\ shown' = "stdio"
    /\ \E verbose \in BOOLEAN :
         IF verbose /\ ~Open(world, world.args0).f.interp
         THEN pc' = "exit1" /\ diag' = diag + 1
         ELSE pc' = "exit0" /\ diag' = diag
    /\ UNCHANGED <<world, deps, deps_list, nodes, dequeued, tuiVars, req, found>>

NextBuild == MainOpen \/ LoopStep \/ FinishTui \/ FinishStdio

SpecBuild == InitBuild /\ [][NextBuild]_vars

\* one more iteration of the loop of main (main.go:792-794): the first
\* element leaves the worklist.  LoopStep is the only step that pops, and
\* it can be taken whenever the worklist is not empty.
LoopAdvances ==
    /\ pc = "loop"
    /\ deps_list # <<>>
    /\ dequeued' = Append(dequeued, Head(deps_list))

\* main is sequential code: the statement it has reached is executed
SpecBuildLive ==
    InitBuild /\ [][NextBuild]_vars /\ WF_vars(MainOpen) /\ WF_dequeued(LoopAdvances)

(***************************************************************************)
(* The event loop of the interactive view (tui.go:709-839)                 *)
(***************************************************************************)
\* a handler that moves the cursor of the dependency pane:
\* saveInfoView, the move, restoreInfoView
MoveHandler(name, t1) ==
    /\ pc = "tui"
    /\ last' = name
    /\ IF tv.Curr \notin DOMAIN items \/ Crashed(t1) \/ t1.Curr \notin DOMAIN items
       THEN pc' = "exit2" /\ UNCHANGED <<tv, iv, finfo, yinfo, dinfo>>
       ELSE /\ pc' = pc
            /\ finfo' = saveInfoView(nodes, items, tv, iv, finfo, yinfo, dinfo).finfo
            /\ yinfo' = saveInfoView(nodes, items, tv, iv, finfo, yinfo, dinfo).yinfo
            /\ dinfo' = saveInfoView(nodes, items, tv, iv, finfo, yinfo, dinfo).dinfo
            /\ tv' = t1
            /\ iv' = restoreInfoView(nodes, items, t1, iv, mode, finfo', yinfo', dinfo', sinfo)
    /\ UNCHANGED <<world, buildVars, items, mode, sinfo, req, found>>

KeyDown == MoveHandler("down", Down(items, tv))
KeyUp == MoveHandler("up", Up(items, tv))
KeyPageDown == MoveHandler("pagedown", PageDown(items, tv))
KeyPageUp == MoveHandler("pageup", PageUp(items, tv))
KeyHome == MoveHandler("home", Home(items, tv))
KeyEnd == MoveHandler("end", End(items, tv))

\* the handlers of f, y, d and s (tui.go:719-746)
KeyMode ==
    /\ pc = "tui"
    /\ \E m \in {MODE_FILE, MODE_SYMBOL, MODE_DYNAMIC, MODE_SECTION} :
         /\ mode' = m
         /\ IF tv.Curr \notin DOMAIN items
            THEN pc' = "exit2" /\ iv' = iv
            ELSE /\ pc' = pc
                 /\ iv' = restoreInfoView(nodes, items, tv, iv, m, finfo, yinfo, dinfo, sinfo)
    /\ last' = "mode"
    /\ UNCHANGED <<world, buildVars, items, tv, finfo, yinfo, dinfo, sinfo, req, found>>

\* the handlers of <left> and "<" (tui.go:768-772, 778-782)
KeyLeft ==
    /\ pc = "tui"
    /\ \E i \in {1, 3} : tv' = Left(tv, i)
    /\ last' = "left"
    /\ UNCHANGED <<pc, world, buildVars, items, iv, mode, finfo, yinfo, dinfo, sinfo, req, found>>

\* the handlers of <right> and ">" (tui.go:773-777, 783-787)
KeyRight ==
    /\ pc = "tui"
    /\ \E i \in {1, 3} :
         /\ tv.pos + i <= MaxPos
         /\ tv' = Right(tv, i)
    /\ last' = "right"
    /\ UNCHANGED <<pc, world, buildVars, items, iv, mode, finfo, yinfo, dinfo, sinfo, req, found>>

\* the handler of <enter> (tui.go:825-829)
KeyEnter ==
    /\ pc = "tui"
    /\ IF tv.Curr \notin DOMAIN items
       THEN pc' = "exit2" /\ items' = items
       ELSE pc' = pc /\ items' = Toggle(items, tv)
    /\ last' = "toggle"
    /\ UNCHANGED <<world, buildVars, tv, iv, mode, finfo, yinfo, dinfo, sinfo, req, found>>

\* the handler of /sys/wnd/resize (tui.go:831-837)
Resize ==
    /\ pc = "tui"
    /\ \E h \in TermHeights :
         /\ tv' = [tv EXCEPT !.rows = rowsFor(h)]
         /\ iv' = [iv EXCEPT !.rows = rowsFor(h)]
    /\ last' = "resize"
    /\ UNCHANGED <<pc, world, buildVars, items, mode, finfo, yinfo, dinfo, sinfo, req, found>>

\* the handlers of q and C-c (tui.go:710-717): the loop stops and main returns
KeyQuit ==
    /\ pc = "tui"
    /\ pc' = "exit0"
    /\ last' = "quit"
    /\ UNCHANGED <<world, buildVars, items, tv, iv, mode, finfo, yinfo, dinfo, sinfo, req, found>>

NextTui ==
    \/ KeyDown \/ KeyUp \/ KeyPageDown \/ KeyPageUp \/ KeyHome \/ KeyEnd
    \/ KeyMode \/ KeyLeft \/ KeyRight \/ KeyEnter \/ Resize \/ KeyQuit

\* the dependency graphs shown in the interactive view
TuiWorlds == {MkWorld(nf, NoDefect) : nf \in {Diamond, Chain, Shared}}

\* the interactive view s is on
InTui(s) ==
    /\ items = s.items
    /\ tv = s.tv
    /\ iv = s.iv
    /\ mode = s.mode
    /\ finfo = s.finfo /\ yinfo = s.yinfo /\ dinfo = s.dinfo /\ sinfo = s.sinfo

\* the build r has ended
Built(r) ==
    /\ deps = r.st.deps
    /\ deps_list = r.st.deps_list
    /\ nodes = r.st.nodes
    /\ dequeued = r.dequeued

\* the state in which the event loop starts
InitTui ==
    /\ world \in TuiWorlds
    /\ pc = "tui"
    /\ Built(runLoop(world, startLoop(world), <<>>))
    /\ \E h \in TermHeights : InTui(ShowWithTUI(nodes, deps, h))
    /\ diag = 0
    /\ shown = "tui"
    /\ last = "none"
    /\ req = NoReq
    /\ found = NoFound

SpecTui == InitTui /\ [][NextTui]_vars

\* the event loop in a terminal that is never resized: rows keeps the
\* value that resize gave it before the loop (tui.go:706)
NextTuiFixed ==
    \/ KeyDown \/ KeyUp \/ KeyPageDown \/ KeyPageUp \/ KeyHome \/ KeyEnd
    \/ KeyMode \/ KeyLeft \/ KeyRight \/ KeyEnter \/ KeyQuit

SpecTuiFixed == InitTui /\ [][NextTuiFixed]_vars

(***************************************************************************)
(* findLib on its own                                                      *)
(***************************************************************************)
MaxFiles == 2    \* most entries of the file system of a stand-alone call

DirR1 == <<"", "r1">>
DirR2 == <<"", "r2">>
DirU1 == <<"", "u1">>
DirE1 == <<"", "e1">>
DirC1 == <<"", "c1">>

ReqNames == {<<"b">>, <<"x", "b">>}

\* the dynamic entries of the requester
DynChoices ==
    { <<>>,
      <<[tag |-> "DT_RPATH", val |-> DirR1]>>,
      <<[tag |-> "DT_RUNPATH", val |-> DirU1]>>,
      <<[tag |-> "DT_RUNPATH", val |-> DirU1], [tag |-> "DT_RPATH", val |-> DirR1]>>,
      <<[tag |-> "DT_RPATH", val |-> DirR1], [tag |-> "DT_RPATH", val |-> DirR2]>>,
      <<[tag |-> "DT_NEEDED", val |-> <<"b">>], [tag |-> "DT_RPATH", val |-> DirR2],
        [tag |-> "DT_FLAGS", val |-> 8], [tag |-> "DT_RUNPATH", val |-> DirR1]>> }

\* strings.Split(envlib, ":") for LD_LIBRARY_PATH unset, "/e1" and "/e1:/u1"
EnvChoices == { <<NoStr>>, <<DirE1>>, <<DirE1, DirU1>> }

\* the directories read from /etc/ld.so.conf
ConfChoices == { <<>>, <<DirC1, DirR1>> }

\* where files may lie: under every directory that is searched for "b", and
\* under some of them and under the working directory for "x/b"
SearchDirs == {DirR1, DirR2, DirU1, DirE1, DirC1, WorkDir, deflib[1], deflib[3]}

CandidatePaths ==
    {Join(dir, <<"b">>) : dir \in SearchDirs}
        \cup {Join(dir, <<"x", "b">>) : dir \in {DirR1, DirE1, WorkDir}}

PlainFile == MkFile("ET_DYN", <<>>, <<>>, <<>>)

\* file systems holding at most MaxFiles of the candidate paths, each a
\* regular file or a directory
ResolveFileSystems ==
    UNION {[ps -> {PlainFile, Directory}] :
              ps \in {q \in SUBSET CandidatePaths : Cardinality(q) <= MaxFiles}}

InitResolve ==
    /\ pc = "resolve"
    /\ \E fs \in ResolveFileSystems, env \in EnvChoices, conf \in ConfChoices :
         world = [fs |-> fs, envlib |-> env, conflib |-> conf, args0 |-> RootPath, cwd |-> WorkDir]
    /\ nodes = <<NewNode(<<"p">>, nil, 0)>>
    /\ \E dyns \in DynChoices :
         deps = [n \in {<<"p">>} |-> [ZeroInfo EXCEPT !.path = <<"", "bin", "p">>,
                                                      !.kind = "ET_EXEC", !.dyns = dyns]]
    /\ req \in [name : ReqNames, parent : {nil, 1}]
    /\ found = NoFound
    /\ deps_list = <<>>
    /\ dequeued = <<>>
    /\ diag = 0
    /\ shown = "none"
    /\ IdleTui

\* findLib(name, parent) (main.go:645)
Resolve ==
    /\ pc = "resolve"
    /\ found' = findLibCall(world, deps, nodes, req.name, req.parent)
    /\ pc' = "resolved"
    /\ UNCHANGED <<world, buildVars, tuiVars, req>>

NextResolve == Resolve

SpecResolve == InitResolve /\ [][NextResolve]_vars

(***************************************************************************)
(* The library-cache configuration (main.go:459-502)                       *)
(*                                                                         *)
(* The text of a configuration file is kept byte by byte: a line is the    *)
(* sequence of its bytes, each a one-character string, and a file is the   *)
(* sequence of its lines as bufio.Scanner splits them.  The names of the   *)
(* configuration files are byte sequences too; world.etc maps the names of *)
(* the text files that exist to their lines.                               *)
(***************************************************************************)
MaxConfLines == 2    \* most lines of /etc/ld.so.conf

\* the bytes that occur, in ASCII order
Alphabet == <<"\t", " ", "#", "*", ".", "/", "?", "[", "]",
              "a", "b", "c", "d", "e", "f", "i", "l", "n", "o", "p", "q", "r", "s", "t", "u", "x", "y">>

Ord(c) == CHOOSE i \in DOMAIN Alphabet : Alphabet[i] = c

\* a < b for Go strings
RECURSIVE Less(_, _)
Less(a, b) ==
    IF b = <<>> THEN FALSE
    ELSE IF a = <<>> THEN TRUE
    ELSE IF Head(a) = Head(b) THEN Less(Tail(a), Tail(b))
    ELSE Ord(Head(a)) < Ord(Head(b))

\* sort.Strings
RECURSIVE SortNames(_)
SortNames(S) ==
    IF S = {} THEN <<>>
    ELSE LET m == CHOOSE a \in S : \A b \in S \ {a} : Less(a, b)
         IN  <<m>> \o SortNames(S \ {m})

\* strings.HasPrefix(t, prefix) (main.go:473, 477)
HasPrefix(t, prefix) == Len(t) >= Len(prefix) /\ SubSeq(t, 1, Len(prefix)) = prefix

Spaces == {" ", "\t"}

RECURSIVE TrimLeft(_)
TrimLeft(t) == IF t # <<>> /\ Head(t) \in Spaces THEN TrimLeft(Tail(t)) ELSE t

RECURSIVE TrimRight(_)
TrimRight(t) ==
    IF t # <<>> /\ t[Len(t)] \in Spaces THEN TrimRight(SubSeq(t, 1, Len(t) - 1)) ELSE t

\* strings.TrimSpace(t) (main.go:470)
TrimSpace(t) == TrimRight(TrimLeft(t))

KwInclude == <<"i", "n", "c", "l", "u", "d", "e">>
KwHash == <<"#">>

\* filepath.Match: "*" stands for any run of bytes other than "/", "?" for
\* one such byte; the patterns of the explored files hold no other
\* operator but an unclosed "[", which makes the pattern malformed
RECURSIVE Match(_, _)
Match(pattern, name) ==
    IF pattern = <<>> THEN name = <<>>
    ELSE IF Head(pattern) = "*"
    THEN \/ Match(Tail(pattern), name)
         \/ name # <<>> /\ Head(name) # "/" /\ Match(pattern, Tail(name))
    ELSE IF Head(pattern) = "?"
    THEN name # <<>> /\ Head(name) # "/" /\ Match(Tail(pattern), Tail(name))
    ELSE name # <<>> /\ Head(name) = Head(pattern) /\ Match(Tail(pattern), Tail(name))

hasMeta(pattern) == \E i \in DOMAIN pattern : pattern[i] \in {"*", "?", "["}

BadPattern(pattern) ==
    \E i \in DOMAIN pattern :
        pattern[i] = "[" /\ \A j \in DOMAIN pattern : j > i => pattern[j] # "]"

\* filepath.Glob(pattern) (main.go:478): the names that match, sorted; a
\* pattern without operators names itself if it exists
Glob(w, pattern) ==
    IF BadPattern(pattern) THEN [err |-> TRUE, libs |-> <<>>]
    ELSE IF ~hasMeta(pattern)
    THEN [err |-> FALSE, libs |-> IF pattern \in DOMAIN w.etc THEN <<pattern>> ELSE <<>>]
    ELSE [err |-> FALSE, libs |-> SortNames({n \in DOMAIN w.etc : Match(pattern, n)})]

RECURSIVE readLdSoConf(_, _, _, _), scanLines(_, _, _, _), readEach(_, _, _, _)

OpensOneFewer(w, name, libpath, nopen) ==
    IF name \notin DOMAIN w.etc \/ nopen + 1 >= w.nofile
    THEN [panic |-> FALSE, libpath |-> libpath]
    ELSE scanLines(w, w.etc[name], libpath, nopen + 1)

\* readLdSoConf (main.go:459-490).  nopen is the number of configuration
\* files the callers hold open (each call keeps its file open until it
\* returns); os.Open fails when the file does not exist and when the
\* process has w.nofile files open.
readLdSoConf(w, name, libpath, nopen) ==
    IF name \notin DOMAIN w.etc \/ nopen >= w.nofile
    THEN [panic |-> FALSE, libpath |-> libpath]
    ELSE scanLines(w, w.etc[name], libpath, nopen + 1)

\* for _, l := range libs { libpath = readLdSoConf(l, libpath) } (main.go:482-484)
readEach(w, libs, libpath, nopen) ==
    IF libs = <<>> THEN [panic |-> FALSE, libpath |-> libpath]
    ELSE LET r == readLdSoConf(w, Head(libs), libpath, nopen)
         IN  IF r.panic THEN r ELSE readEach(w, Tail(libs), r.libpath, nopen)

\* the value of an included file list is carried on to the remaining lines
afterInclude(w, lines, r, nopen) ==
    IF r.panic THEN r ELSE scanLines(w, lines, r.libpath, nopen)

\* an include line: t[8:] slices out of range when t has 7 bytes
includeLine(w, t, lines, libpath, nopen, g) ==
    IF g.err THEN scanLines(w, lines, libpath, nopen)
    ELSE afterInclude(w, lines, readEach(w, g.libs, libpath, nopen), nopen)

\* the loop over the lines (main.go:467-488)
scanLines(w, lines, libpath, nopen) ==
    IF lines = <<>> THEN [panic |-> FALSE, libpath |-> libpath]
    ELSE IF Len(TrimSpace(Head(lines))) = 0 THEN scanLines(w, Tail(lines), libpath, nopen)
    ELSE IF HasPrefix(Head(lines), KwHash) THEN scanLines(w, Tail(lines), libpath, nopen)
    ELSE IF HasPrefix(Head(lines), KwInclude)
    THEN IF Len(Head(lines)) < 8 THEN [panic |-> TRUE, libpath |-> libpath]
         ELSE includeLine(w, Head(lines), Tail(lines), libpath, nopen,
                          Glob(w, SubSeq(Head(lines), 9, Len(Head(lines)))))
    ELSE scanLines(w, Tail(lines), Append(libpath, Head(lines)), nopen)

\* "/etc/ld.so.conf"
LdSoConf == <<"/", "e", "t", "c", "/", "l", "d", ".", "s", "o", ".", "c", "o", "n", "f">>

\* the directory names of more than one byte that occur, with their bytes
Spelled == { [w |-> " #p", bs |-> <<" ", "#", "p">>],
             [w |-> "p ", bs |-> <<"p", " ">>] }

\* the name spelled by the bytes bs
Word(bs) ==
    IF bs = <<>> THEN ""
    ELSE IF Len(bs) = 1 THEN bs[1]
    ELSE (CHOOSE e \in Spelled : e.bs = bs).w

\* strings.Split at "/": the components of the Go string t
RECURSIVE SplitSlash(_, _)
SplitSlash(t, acc) ==
    IF t = <<>> THEN <<Word(acc)>>
    ELSE IF Head(t) = "/" THEN <<Word(acc)>> \o SplitSlash(Tail(t), <<>>)
    ELSE SplitSlash(Tail(t), Append(acc, Head(t)))

\* the Go string t as a path
PathOf(t) == IF t = <<>> THEN NoStr ELSE SplitSlash(t, <<>>)

(***************************************************************************)
(* init (main.go:492-502) followed by one findLib call                     *)
(***************************************************************************)
ConfDirP == <<"/", "p">>
ConfDirQ == <<"/", "q">>
ConfDirR == <<"/", "r">>
ConfDirS == <<"/", "s">>
ConfXA == <<"/", "x", "/", "a">>
ConfXB == <<"/", "x", "/", "b">>
ConfY == <<"/", "y">>

\* the lines /etc/ld.so.conf is made of
RootLines ==
    { <<>>, <<" ", "\t">>,
      <<"#">>, <<"#", "/", "p">>, <<" ", "#", "p">>,
      ConfDirP, <<"/", "p", " ">>, <<"/", "p", "/">>,
      KwInclude \o <<" ">> \o <<"/", "x", "/", "*">>,
      KwInclude \o <<" ">> \o <<"/", "x", "/", "?">>,
      KwInclude \o <<" ">> \o ConfXB,
      KwInclude \o <<" ">> \o <<"/", "?">>,
      KwInclude \o <<" ">> \o <<"/", "x", "/", "[">>,
      KwInclude \o <<" ", " ">> \o ConfY,
      KwInclude \o <<"\t">> \o ConfY,
      KwInclude \o <<"s">>,
      KwInclude }

\* the included files that may exist, with their alternative contents
EtcChoices ==
    [ a : { <<>>, <<ConfDirQ>>, <<KwInclude \o <<" ">> \o ConfY, ConfDirQ>> },
      b : { <<>>, <<KwHash, ConfDirR, <<>> >> },
      y : { <<>>, <<ConfDirS, KwInclude \o <<" ">> \o <<"/", "z">> >> } ]

\* the file system of configuration files: an included file with no line
\* stands for a file that does not exist
MkEtc(root, c) ==
    LET names == {LdSoConf} \cup (IF c.a = <<>> THEN {} ELSE {ConfXA})
                     \cup (IF c.b = <<>> THEN {} ELSE {ConfXB})
                     \cup (IF c.y = <<>> THEN {} ELSE {ConfY})
    IN  [n \in names |-> IF n = LdSoConf THEN root
                         ELSE IF n = ConfXA THEN c.a
                         ELSE IF n = ConfXB THEN c.b ELSE c.y]

RootFiles == UNION {[1..k -> RootLines] : k \in 0..MaxConfLines}

\* the most files a process opens (RLIMIT_NOFILE less the standard streams)
NoFile == 1021

InitConf ==
    /\ pc = "init"
    /\ \E root \in RootFiles, c \in EtcChoices :
         world = [fs |-> [q \in {} |-> PlainFile], envlib |-> <<NoStr>>, conflib |-> <<>>,
                  args0 |-> RootPath, cwd |-> WorkDir, etc |-> MkEtc(root, c), nofile |-> NoFile]
    /\ nodes = <<NewNode(<<"p">>, nil, 0)>>
    /\ deps = [n \in {<<"p">>} |-> [ZeroInfo EXCEPT !.path = <<"", "bin", "p">>, !.kind = "ET_EXEC"]]
    /\ req = [name |-> <<"b">>, parent |-> 1]
    /\ found = NoFound
    /\ deps_list = <<>>
    /\ dequeued = <<>>
    /\ diag = 0
    /\ shown = "none"
    /\ IdleTui

\* conflib = readLdSoConf("/etc/ld.so.conf", conflib) (main.go:496); r is
\* the outcome of the call
SetConflib(r) ==
    IF r.panic
    THEN pc' = "exit2" /\ world' = world
    ELSE /\ pc' = "resolve"
         /\ world' = [world EXCEPT !.conflib = [i \in DOMAIN r.libpath |-> PathOf(r.libpath[i])]]

\* init (main.go:492-502)
LoadConf ==
    /\ pc = "init"
    /\ SetConflib(readLdSoConf(world, LdSoConf, <<>>, 0))
    /\ UNCHANGED <<buildVars, tuiVars, req, found>>

NextConf == LoadConf \/ Resolve

SpecConf == InitConf /\ [][NextConf]_vars

(***************************************************************************)
(* init (main.go:492-502) on configuration files that include each other   *)
(***************************************************************************)
MaxOpen == 4    \* the open-file limit of the runs with nested include files

Include(target) == KwInclude \o <<" ">> \o target
ConfXAny == <<"/", "x", "/", "*">>

\* what an include line may name
IncludeTargets == {LdSoConf, ConfXA, ConfXB, ConfY, ConfXAny}

\* the contents of a configuration file whose own directory is dir
Bodies(dir) ==
    { <<dir>>, <<Include(ConfXAny), Include(ConfXAny)>> }
        \cup { <<dir, Include(t)>> : t \in IncludeTargets }
        \cup { <<Include(t), dir>> : t \in IncludeTargets }

\* an included file may be absent
Absent == <<>>

IncludeWorlds ==
    { [fs |-> [q \in {} |-> PlainFile], envlib |-> <<NoStr>>, conflib |-> <<>>,
       args0 |-> RootPath, cwd |-> WorkDir,
       etc |-> MkEtc(root, c), nofile |-> MaxOpen] :
        root \in Bodies(ConfDirP),
        c \in [ a : {Absent} \cup Bodies(ConfDirQ),
                b : {Absent} \cup Bodies(ConfDirR),
                y : {Absent} \cup Bodies(ConfDirS) ] }

InitInclude ==
    /\ pc = "init"
    /\ world \in IncludeWorlds
    /\ nodes = <<NewNode(<<"p">>, nil, 0)>>
    /\ deps = [n \in {<<"p">>} |-> [ZeroInfo EXCEPT !.path = <<"", "bin", "p">>, !.kind = "ET_EXEC"]]
    /\ req = [name |-> <<"b">>, parent |-> 1]
    /\ found = NoFound
    /\ deps_list = <<>>
    /\ dequeued = <<>>
    /\ diag = 0
    /\ shown = "none"
    /\ IdleTui

SpecInclude == InitInclude /\ [][NextConf]_vars

(***************************************************************************)
(* The build of binaries that declare RPATH and RUNPATH directories        *)
(***************************************************************************)
\* what a binary declares: nothing, one RPATH or one RUNPATH directory
NoDirs == [rpath |-> <<>>, runpath |-> <<>>]
DeclChoices ==
    {NoDirs} \cup {[NoDirs EXCEPT !.rpath = <<dir>>] : dir \in {DirR1, DirR2}}
             \cup {[NoDirs EXCEPT !.runpath = <<dir>>] : dir \in {DirR1, DirR2}}

\* the directories library d may lie in
HomesOfD == SUBSET {<<"", "lib">>, DirR1, DirR2}

\* the run of /bin/a: b and c live in /lib, d in the directories of homes;
\* decl gives what a, b and c declare
MkDeclWorld(needs, decl, homes) ==
    [fs |-> [p \in {RootPath, LibPath("b"), LibPath("c")} \cup {Join(h, <<"d">>) : h \in homes} |->
                IF p = RootPath THEN MkFile("ET_EXEC", needs["a"], decl["a"].rpath, decl["a"].runpath)
                ELSE IF p = LibPath("b") THEN MkFile("ET_DYN", needs["b"], decl["b"].rpath, decl["b"].runpath)
                ELSE IF p = LibPath("c") THEN MkFile("ET_DYN", needs["c"], decl["c"].rpath, decl["c"].runpath)
                ELSE MkFile("ET_DYN", <<>>, <<>>, <<>>)],
     envlib |-> <<NoStr>>, conflib |-> <<>>, args0 |-> RootPath, cwd |-> WorkDir]

DeclWorlds ==
    {MkDeclWorld(nf, decl, homes) :
        nf \in {Diamond, Chain}, decl \in [{"a", "b", "c"} -> DeclChoices], homes \in HomesOfD}

InitDecl ==
    /\ world \in DeclWorlds
    /\ pc = "main"
    /\ deps = EmptyMap
    /\ deps_list = <<>>
    /\ nodes = <<>>
    /\ dequeued = <<>>
    /\ diag = 0
    /\ shown = "none"
    /\ IdleTui
    /\ req = NoReq
    /\ found = NoFound

SpecDecl == InitDecl /\ [][NextBuild]_vars

(***************************************************************************)
(* Properties of the dependency pane                                       *)
(***************************************************************************)
\* the rows shown from ti on, in order, by repeated nextItem
RECURSIVE RowsFrom(_, _)
RowsFrom(its, ti) == IF ti = nil THEN <<>> ELSE <<ti>> \o RowsFrom(its, nextItem(its, ti))

Rows == RowsFrom(items, tv.Root)

\* the children of x by the parent links
ChildSet(x) == {c \in DOMAIN items : items[c].parent = x}

RECURSIVE SumTotals(_)
SumTotals(S) ==
    IF S = {} THEN 0
    ELSE LET c == CHOOSE c \in S : TRUE
         IN  1 + items[c].total + SumTotals(S \ {c})

\* C1: in every state of the interactive view every TreeItem has total 0
\* if it is folded and total = sum over its children c of (1 + total(c))
\* if it is unfolded.
C1_TotalInvariant ==
    \A x \in DOMAIN items :
        /\ items[x].folded => items[x].total = 0
        /\ ~items[x].folded => items[x].total = SumTotals(ChildSet(x))

\* a toggle has folded an inner item while another item with children is unfolded
C1_Witness ==
    /\ pc = "tui"
    /\ last = "toggle"
    /\ \E x, y \in DOMAIN items :
          /\ items[x].folded /\ items[x].parent # nil
          /\ ~items[y].folded /\ items[y].child # nil /\ items[y].total > 0

\* C2: after any sequence of commands the dependency pane satisfies
\* 0 <= off <= idx < off + rows and 0 <= idx <= Root.total.
C2_ViewportInvariant ==
    pc = "tui" =>
        /\ 0 <= tv.off
        /\ tv.off <= tv.idx
        /\ tv.idx < tv.off + tv.rows
        /\ 0 <= tv.idx
        /\ tv.idx <= items[tv.Root].total

\* C7: toggling a shown item that has a child twice restores the total and
\* the folded flag of every item, Root.total included.
C7_ToggleTwice ==
    pc = "tui" =>
        \A i \in DOMAIN Rows :
            LET x == Rows[i]
                twice == toggle(toggle(items, x), x)
            IN  items[x].child # nil =>
                    /\ twice[tv.Root].total = items[tv.Root].total
                    /\ twice = items

\* a toggle has acted, an item below Root is folded, and a shown item with a
\* child is folded while another is unfolded
C7_Witness ==
    /\ pc = "tui"
    /\ last = "toggle"
    /\ \E i, j \in DOMAIN Rows :
          /\ items[Rows[i]].child # nil /\ items[Rows[i]].folded /\ items[Rows[i]].parent # nil
          /\ items[Rows[j]].child # nil /\ ~items[Rows[j]].folded /\ items[Rows[j]].parent # nil

\* C8: for a fixed fold state and every shown row x, nextItem(prevItem(x)) = x
\* unless x is the first row, and prevItem(nextItem(x)) = x unless x is the
\* last row.
C8_NextPrevInverse ==
    pc = "tui" =>
        \A i \in DOMAIN Rows :
            LET x == Rows[i]
            IN  /\ i # 1 => nextItem(items, prevItem(items, x)) = x
                /\ i # Len(Rows) => prevItem(items, nextItem(items, x)) = x

\* a row follows a folded sibling whose children are hidden, and another row
\* follows an unfolded sibling with children
C8_Witness ==
    /\ pc = "tui"
    /\ \E i, j \in DOMAIN Rows :
          /\ items[Rows[i]].prev # nil
          /\ items[items[Rows[i]].prev].folded
          /\ items[Rows[j]].prev # nil
          /\ ~items[items[Rows[j]].prev].folded
          /\ items[items[Rows[j]].prev].child # nil

\* C16: page-down with the selection not on the last row of the page
\* (row min(off + rows - 1, Root.total)) moves the selection to that row
\* and keeps the first visible row; with the selection on that row it
\* advances the selection by rows, clamped to Root.total, and scrolls just
\* far enough for the selection to be the last visible row.
C16_PageDown ==
    [][ (pc = "tui" /\ last' = "pagedown") =>
          LET total == items[tv.Root].total
              bottom == Min(tv.off + tv.rows - 1, total)
              idx == Min(tv.idx + tv.rows, total)
          IN  /\ pc' = "tui"
              /\ tv'.Curr = Rows[tv'.idx + 1]
              /\ tv'.Top = Rows[tv'.off + 1]
              /\ IF tv.idx # bottom
                 THEN tv'.idx = bottom /\ tv'.off = tv.off
                 ELSE /\ tv'.idx = idx
                      /\ tv'.off = Max(tv.off, idx - tv.rows + 1)
                      /\ tv'.idx = Min(tv'.off + tv.rows - 1, total) ]_vars

\* the children of item x of the detail tree T by the parent links
DetailChildren(T, x) == {c \in DOMAIN T : T[c].parent = x}

RECURSIVE SumDetailTotals(_, _)
SumDetailTotals(T, S) ==
    IF S = {} THEN 0
    ELSE LET c == CHOOSE c \in S : TRUE
         IN  1 + T[c].total + SumDetailTotals(T, S \ {c})

\* C20: every detail tree built for a library (summary, symbols, dynamic
\* tags, section headers) satisfies the total invariant as built: the
\* total of the root is the number of rows below it and the total of every
\* unfolded item, the section labels included, is the sum over its
\* children of 1 + total(child).
C20_DetailTotals ==
    pc = "tui" =>
        \A m \in {finfo, yinfo, dinfo, sinfo} :
            \A k \in DOMAIN m :
                LET T == m[k].Root
                IN  /\ T[1].total = Len(T) - 1
                    /\ \A x \in DOMAIN T :
                          ~T[x].folded => T[x].total = SumDetailTotals(T, DetailChildren(T, x))

\* the cache of the detail mode md and the viewport kept in an entry or a pane
CacheOf(md, fi, yi, di, si) ==
    CASE md = MODE_FILE -> fi [] md = MODE_SYMBOL -> yi [] md = MODE_DYNAMIC -> di [] OTHER -> si

Viewport(x) == <<x.idx, x.off, x.pos>>

SelectedName(its, t) == nodes[its[t.Curr].node].name

MoveCommands == {"down", "up", "pagedown", "pageup", "home", "end"}

Links(item) == <<item.node, item.parent, item.prev, item.next, item.child>>

\* C18: once the build has completed no command of the interactive view
\* changes the metadata table, the dependency tree, or a parent, child or
\* sibling link of the presentation trees; only folded flags, totals and
\* viewport state change.
C18_StructureFrozen ==
    [][ pc = "tui" =>
          /\ deps' = deps
          /\ nodes' = nodes
          /\ DOMAIN items' = DOMAIN items
          /\ \A x \in DOMAIN items : Links(items'[x]) = Links(items[x])
          /\ tv'.Root = tv.Root
          /\ \A k \in DOMAIN deps :
                /\ finfo'[k].Root = finfo[k].Root
                /\ yinfo'[k].Root = yinfo[k].Root
                /\ dinfo'[k].Root = dinfo[k].Root
                /\ sinfo'[k].Root = sinfo[k].Root
          /\ <<world, deps_list, dequeued, diag, shown>>' = <<world, deps_list, dequeued, diag, shown>> ]_vars

\* an inner item with children is folded, the cursor has been moved off the
\* root and the detail mode has been switched
C18_Witness ==
    /\ pc = "tui"
    /\ \E x \in DOMAIN items : items[x].folded /\ items[x].child # nil /\ items[x].parent # nil
    /\ tv.idx > 0
    /\ tv.off > 0
    /\ mode # MODE_FILE

(***************************************************************************)
(* Properties of the build                                                 *)
(***************************************************************************)
\* the file a node stands for in the explored runs: the argument for the
\* root, the library of that name in /lib otherwise
PathOfNode(n) == IF nodes[n].parent = nil THEN world.args0 ELSE LibPath(nodes[n].name[1])
PathOfName(name) == IF name = Base(world.args0) THEN world.args0 ELSE LibPath(name[1])

\* the needed names a binary declares, in declaration order
NeededNames(f) ==
    LET needed == SelectSeq(f.entries, LAMBDA e : e.tag = "DT_NEEDED")
    IN  [i \in DOMAIN needed |-> f.strtab[needed[i].val]]

NeededOfName(name) ==
    IF PathOfName(name) \in DOMAIN world.fs
    THEN Range(NeededNames(world.fs[PathOfName(name)]))
    ELSE {}

\* the names reachable from the root by the needed relation
RECURSIVE NamesFrom(_)
NamesFrom(S) ==
    LET T == S \cup UNION {NeededOfName(n) : n \in S}
    IN  IF T = S THEN S ELSE NamesFrom(T)

TransitiveNames == NamesFrom({Base(world.args0)})

BuildCompleted == shown # "none" \/ (pc = "loop" /\ deps_list = <<>>)

RECURSIVE ShapeOf(_, _)
ShapeOf(ns, n) == <<ns[n].name, [i \in DOMAIN ns[n].child |-> ShapeOf(ns, ns[n].child[i])]>>

Leaf(name) == <<name, <<>> >>
DiamondShape ==
    << <<"a">>, << << <<"b">>, <<Leaf(<<"d">>)>> >>, << <<"c">>, <<Leaf(<<"d">>)>> >> >> >>

\* C4: for A needing B and C, B needing D and C needing D the build gives
\* the tree A -> {B -> {D}, C -> {D}}, a metadata table with the entries
\* A, B, C and D, and a presentation tree with Root.total = 4.
C4_DiamondScenario ==
    world = MkWorld(Diamond, NoDefect) =>
        /\ BuildCompleted =>
              /\ ShapeOf(nodes, deps_root) = DiamondShape
              /\ DOMAIN deps = {<<"a">>, <<"b">>, <<"c">>, <<"d">>}
        /\ pc = "tui" => items[tv.Root].total = 4 /\ \A x \in DOMAIN items : ~items[x].folded

\* the interactive view of the diamond has been entered
C4_Witness ==
    /\ world = MkWorld(Diamond, NoDefect)
    /\ pc = "tui"
    /\ Len(items) = 5

\* C9: processing a node whose name has no record yet creates one child per
\* needed name, in declaration order, with parent = the node and depth =
\* the node's depth + 1, appends them to the node's children, and puts them
\* in front of the pending worklist items, whose order is kept.
C9_ChildrenToFront ==
    [][ (/\ pc = "loop" /\ pc' = "loop"
         /\ deps_list # <<>>
         /\ nodes[Head(deps_list)].name \notin DOMAIN deps)
        => LET dep == Head(deps_list)
               names == NeededNames(world.fs[PathOfNode(dep)])
               k == Len(names)
               base == Len(nodes)
               L == [i \in 1..k |-> base + i]
           IN  /\ Len(nodes') = base + k
               /\ \A i \in 1..k :
                     nodes'[base + i] = [name |-> names[i], parent |-> dep,
                                         child |-> <<>>, depth |-> nodes[dep].depth + 1]
               /\ nodes'[dep].child = nodes[dep].child \o L
               /\ deps_list' = L \o Tail(deps_list) ]_vars

\* a node with two needed names has just been processed while other nodes
\* were pending: its children lead the worklist, the pending nodes follow
C9_Witness ==
    /\ pc = "loop"
    /\ dequeued # <<>>
    /\ LET dep == dequeued[Len(dequeued)]
           kids == nodes[dep].child
       IN  /\ Len(kids) = 2
           /\ Len(deps_list) >= Len(kids) + 2
           /\ SubSeq(deps_list, 1, Len(kids)) = kids
           /\ nodes[deps_list[Len(kids) + 1]].depth <= nodes[dep].depth

\* the failures of processDep that end in a diagnostic: the path cannot be
\* opened as an ELF file, the type is neither executable nor shared object,
\* there is no dynamic section, or the imported libraries or the symbols
\* cannot be read
ListedFailure(path) ==
    \/ path \notin DOMAIN world.fs
    \/ LET f == world.fs[path]
       IN  \/ f.ftype # "file"
           \/ ~f.elf
           \/ f.type \notin {"ET_EXEC", "ET_DYN"}
           \/ ~f.dynamic
           \/ f.libsErr \/ f.isymErr \/ f.dsymErr

\* C10: a failure while processing a dequeued node, at any depth, ends the
\* build at that node with one diagnostic line and exit code 1 and nothing
\* is shown; a run shows a view or exits with code 0 only if every dequeued
\* node was processed without failure.
C10_FailFast ==
    /\ \A i \in DOMAIN dequeued :
          ListedFailure(PathOfNode(dequeued[i])) =>
              /\ pc = "exit1"
              /\ diag = 1
              /\ shown = "none"
              /\ i = Len(dequeued)
    /\ (pc = "exit0" \/ shown # "none") =>
          \A i \in DOMAIN dequeued :
              /\ ~ListedFailure(PathOfNode(dequeued[i]))
              /\ nodes[dequeued[i]].name \in DOMAIN deps

\* the build has stopped on a failing library two levels below the root
C10_Witness ==
    /\ pc = "exit1"
    /\ diag = 1
    /\ shown = "none"
    /\ dequeued # <<>>
    /\ nodes[dequeued[Len(dequeued)]].depth >= 2
    /\ ListedFailure(PathOfNode(dequeued[Len(dequeued)]))
    /\ deps_list # <<>>

\* the file of a dequeued node opens as an ELF executable or shared object
Loadable(path) ==
    /\ path \in DOMAIN world.fs
    /\ world.fs[path].ftype = "file"
    /\ world.fs[path].elf
    /\ world.fs[path].type \in {"ET_EXEC", "ET_DYN"}

\* C11: parsing the dynamic section fails with one diagnostic, a non-zero
\* exit of the build and no interactive view both when the binary has no
\* dynamic section and when it has one but no dynamic string table.
C11_MissingSection ==
    \A i \in DOMAIN dequeued :
        LET p == PathOfNode(dequeued[i])
        IN  (Loadable(p) /\ (~world.fs[p].dynamic \/ ~world.fs[p].dynstr)) =>
                /\ pc = "exit1"
                /\ diag = 1
                /\ shown = "none"

\* the entries of a dynamic section that precede its first DT_NULL entry
RECURSIVE BeforeNull(_)
BeforeNull(entries) ==
    IF entries = <<>> \/ Head(entries).tag = "DT_NULL" THEN <<>>
    ELSE <<Head(entries)>> \o BeforeNull(Tail(entries))

\* C12: the dynamic entries recorded for a library stop at the first
\* DT_NULL entry of its dynamic section: every recorded entry comes from an
\* on-disk entry that precedes the first DT_NULL.
C12_StopsAtNull ==
    \A n \in DOMAIN deps :
        LET f == world.fs[PathOfName(n)]
            kept == BeforeNull(f.entries)
        IN  /\ Len(deps[n].dyns) = Len(kept)
            /\ \A i \in DOMAIN kept :
                  /\ deps[n].dyns[i].tag = kept[i].tag
                  /\ deps[n].dyns[i].val =
                        IF kept[i].tag \in StringTags THEN f.strtab[kept[i].val] ELSE kept[i].val

\* a string-valued entry of f points outside the string table
BadOffset(f) ==
    \E i \in DOMAIN f.entries :
        f.entries[i].tag \in StringTags /\ f.entries[i].val \notin DOMAIN f.strtab

\* C13: a needed-library, RPATH, RUNPATH or soname entry whose string-table
\* offset is out of bounds ends the build with one diagnostic and exit
\* code 1, and in no other way.
C13_MalformedBinary ==
    \A i \in DOMAIN dequeued :
        LET p == PathOfNode(dequeued[i])
        IN  (Loadable(p) /\ world.fs[p].dynamic /\ world.fs[p].dynstr /\ BadOffset(world.fs[p])) =>
                /\ pc = "exit1"
                /\ diag = 1
                /\ shown = "none"

(***************************************************************************)
(* Properties of the resolver                                              *)
(***************************************************************************)
TaggedDirs(dyns, tag) ==
    LET sel == SelectSeq(dyns, LAMBDA e : e.tag = tag)
    IN  [i \in DOMAIN sel |-> sel[i].val]

RequesterDyns == IF req.parent = nil THEN <<>> ELSE deps[nodes[req.parent].name].dyns

\* the directories of the five search steps, in the order of the steps
OrderedDirs ==
    TaggedDirs(RequesterDyns, "DT_RPATH") \o world.envlib
        \o TaggedDirs(RequesterDyns, "DT_RUNPATH") \o world.conflib \o deflib

Exists(p) == Abs(world, p) \in DOMAIN world.fs

\* the concatenation of a sequence of sequences
RECURSIVE Flatten(_)
Flatten(ss) == IF ss = <<>> THEN <<>> ELSE Head(ss) \o Flatten(Tail(ss))

\* the directories a configuration file stands for: nothing for a blank
\* line and for a comment, the directories of the matched files, in match
\* order, for an include line, the line itself otherwise
RECURSIVE FileDirs(_, _), LineDirs(_, _)
FileDirs(w, name) ==
    IF name \notin DOMAIN w.etc THEN <<>>
    ELSE Flatten([i \in DOMAIN w.etc[name] |-> LineDirs(w, w.etc[name][i])])

LineDirs(w, t) ==
    IF \A i \in DOMAIN t : t[i] \in Spaces THEN <<>>
    ELSE IF t[1] = "#" THEN <<>>
    ELSE IF HasPrefix(t, KwInclude)
    THEN LET matched == Glob(w, SubSeq(t, 9, Len(t))).libs
         IN  Flatten([j \in DOMAIN matched |-> FileDirs(w, matched[j])])
    ELSE <<t>>

ConfDirs == [i \in DOMAIN FileDirs(world, LdSoConf) |-> PathOf(FileDirs(world, LdSoConf)[i])]

\* C14: readLdSoConf returns the directories of /etc/ld.so.conf read line
\* by line in file order, a blank line and a #-comment giving nothing, an
\* include line giving in its place the directories of every file its glob
\* matches (expanded by the same rules, in match order), every other line
\* giving itself; step 4 of findLib probes exactly this list.
C14_ConfDirectories ==
    pc # "init" =>
        /\ pc # "exit2"
        /\ world.conflib = ConfDirs
        /\ pc = "resolved" =>
              found.stats = <<req.name>>
                                \o [i \in DOMAIN ConfDirs |-> Join(ConfDirs[i], req.name)]
                                \o [i \in DOMAIN deflib |-> Join(deflib[i], req.name)]

\* C5: for a name without a path separator findLib probes the RPATH
\* entries of the requester, the directories of the environment value, the
\* RUNPATH entries of the requester, the configured directories and the
\* default directories, in this order, and returns the first candidate that
\* exists, or the empty string if none does.
C5_SearchOrder ==
    (pc = "resolved" /\ ~ContainsSlash(req.name)) =>
        LET cands == [i \in DOMAIN OrderedDirs |-> Join(OrderedDirs[i], req.name)]
            hits == {i \in DOMAIN cands : Exists(cands[i])}
        IN  IF hits = {}
            THEN found.ret = NoStr /\ found.stats = cands
            ELSE LET m == CHOOSE i \in hits : \A j \in hits : i <= j
                 IN  found.ret = cands[m] /\ found.stats = SubSeq(cands, 1, m)

\* the library lies under an RPATH directory and under a RUNPATH directory
\* of the requester and the RPATH path has been returned
C5_Witness ==
    /\ pc = "resolved"
    /\ ~ContainsSlash(req.name)
    /\ req.parent # nil
    /\ \E i \in DOMAIN TaggedDirs(RequesterDyns, "DT_RPATH"),
          j \in DOMAIN TaggedDirs(RequesterDyns, "DT_RUNPATH") :
          LET r == Join(TaggedDirs(RequesterDyns, "DT_RPATH")[i], req.name)
              u == Join(TaggedDirs(RequesterDyns, "DT_RUNPATH")[j], req.name)
          IN  r # u /\ Exists(r) /\ Exists(u) /\ found.ret = r

RegularFile(p) == Exists(p) /\ world.fs[Abs(world, p)].ftype = "file"

\* C15: in every search step findLib accepts a candidate only if it is an
\* existing regular file; a candidate that exists but is not a regular
\* file is skipped and the search goes on, so the result is the first
\* candidate in search order that is a regular file, or the empty string.
C15_RegularFilesOnly ==
    (pc = "resolved" /\ ~ContainsSlash(req.name)) =>
        LET cands == [i \in DOMAIN OrderedDirs |-> Join(OrderedDirs[i], req.name)]
            hits == {i \in DOMAIN cands : RegularFile(cands[i])}
        IN  /\ found.ret # NoStr => RegularFile(found.ret)
            /\ IF hits = {} THEN found.ret = NoStr
               ELSE found.ret = cands[CHOOSE i \in hits : \A j \in hits : i <= j]

\* C6: a name that contains a path separator is returned unchanged and no
\* path is probed, whatever the requester and the file system.
C6_SlashNameVerbatim ==
    (pc = "resolved" /\ ContainsSlash(req.name)) =>
        /\ found.ret = req.name
        /\ found.stats = <<>>

\* a name with a separator has been resolved although a file of that name
\* lies under an RPATH directory of the requester
C6_Witness ==
    /\ pc = "resolved"
    /\ ContainsSlash(req.name)
    /\ req.parent # nil
    /\ \E i \in DOMAIN TaggedDirs(RequesterDyns, "DT_RPATH") :
          Exists(Join(TaggedDirs(RequesterDyns, "DT_RPATH")[i], req.name))
    /\ found.ret = req.name

(***************************************************************************)
(* Properties of the worklist order                                        *)
(***************************************************************************)
\* the nodes of the tree below n in depth-first pre-order
RECURSIVE Preorder(_, _)
Preorder(ns, n) == <<n>> \o Flatten([i \in DOMAIN ns[n].child |-> Preorder(ns, ns[n].child[i])])

\* the nodes of the tree in breadth-first order, level by level
RECURSIVE LevelOrder(_, _)
LevelOrder(ns, level) ==
    IF level = <<>> THEN <<>>
    ELSE level \o LevelOrder(ns, Flatten([i \in DOMAIN level |-> ns[level[i]].child]))

\* the builds of the graphs without a damaged file, run to their end
CleanBuilds == {runLoop(w, startLoop(w), <<>>) : w \in {MkWorld(nf, NoDefect) : nf \in NeedFuns}}

\* C19 as stated: the dequeue order is neither depth-first nor
\* breadth-first: some dependency graph gives a dequeue sequence other than
\* the depth-first pre-order of its tree, and some graph gives one other
\* than the breadth-first order.
C19_NeitherOrder ==
    world \in BuildWorlds =>
        /\ \E r \in CleanBuilds : r.dequeued # Preorder(r.st.nodes, deps_root)
        /\ \E r \in CleanBuilds : r.dequeued # LevelOrder(r.st.nodes, <<deps_root>>)

\* C19 as amended: the builder dequeues the nodes in depth-first pre-order:
\* at every moment the dequeued nodes followed by the worklist are the
\* pre-order of the tree built so far, and a completed build has dequeued
\* the pre-order of the resulting tree.
C19_DepthFirst ==
    nodes # <<>> =>
        /\ dequeued \o deps_list = Preorder(nodes, deps_root)
        /\ BuildCompleted => dequeued = Preorder(nodes, deps_root)

\* a completed build whose dequeue sequence is the pre-order of the tree
\* and differs from the breadth-first order
C19_Witness ==
    /\ BuildCompleted
    /\ dequeued = Preorder(nodes, deps_root)
    /\ dequeued # LevelOrder(nodes, <<deps_root>>)

(***************************************************************************)
(* Properties of the traversal and of folding                              *)
(***************************************************************************)
\* the rows of the subtree of x that are shown when x is: x, then, unless x
\* is folded, the shown rows of each child in turn
RECURSIVE ShownBelow(_, _)
ShownBelow(its, x) ==
    <<x>> \o (IF its[x].folded THEN <<>>
              ELSE Flatten([i \in DOMAIN Children(its, x) |-> ShownBelow(its, Children(its, x)[i])]))

\* the rows of the walk from Root that lie strictly inside the subtree of x
RowsInside(x) == {i \in DOMAIN Rows : x \in Ancestors(items, Rows[i])}

\* the walk from Root by nextItem: Root.total + 1 rows, in depth-first
\* pre-order, none of them below a folded item
WalkFromRoot ==
    /\ Len(Rows) = items[tv.Root].total + 1
    /\ Rows = ShownBelow(items, tv.Root)
    /\ \A i \in DOMAIN Rows : \A a \in Ancestors(items, Rows[i]) : ~items[a].folded

\* C21 as stated: in every fold state the walk from Root by nextItem visits
\* exactly Root.total + 1 items, in depth-first pre-order, never a child of
\* a folded item, and the total of every item is the number of visited rows
\* strictly inside its subtree.
C21_TotalCountsRows ==
    items # <<>> =>
        /\ WalkFromRoot
        /\ \A x \in DOMAIN items : items[x].total = Cardinality(RowsInside(x))

\* C21 as amended: the same, the total being the number of visited rows
\* strictly inside the subtree for every item that is itself visited; an
\* unfolded item hidden below a folded one keeps the count of its own
\* children's rows.
C21_TotalCountsShownRows ==
    items # <<>> =>
        /\ WalkFromRoot
        /\ \A i \in DOMAIN Rows : items[Rows[i]].total = Cardinality(RowsInside(Rows[i]))
        /\ \A x \in DOMAIN items :
              (x \notin Range(Rows) /\ ~items[x].folded) =>
                  items[x].total = SumTotals(ChildSet(x))

\* a toggle has folded an item below Root whose subtree holds an unfolded
\* item with children, and the rows after the folded item are still shown
C21_Witness ==
    /\ pc = "tui"
    /\ last = "toggle"
    /\ \E x, y \in DOMAIN items :
          /\ items[x].folded /\ items[x].parent # nil /\ items[x].next # nil
          /\ x \in Ancestors(items, y) /\ ~items[y].folded /\ items[y].total > 0
          /\ items[x].next \in Range(Rows)
          /\ Len(Rows) = items[tv.Root].total + 1

\* the sum over the children of x of 1 + total(child)
ChildRows(its, x) == SumSeq([i \in DOMAIN Children(its, x) |-> 1 + its[Children(its, x)[i]].total])

\* C22: a toggle of item x changes the folded flag of no item but x and the
\* total of no item but x and its ancestors; on expand the total of x
\* becomes the sum over its children of 1 + total(child) and the total of
\* every ancestor grows by that amount; on collapse the total of every
\* ancestor shrinks by the previous total of x and the total of x becomes 0.
C22_ToggleFrame ==
    [][ (pc = "tui" /\ pc' = "tui" /\ last' = "toggle") =>
          LET x == tv.Curr
              anc == Ancestors(items, x)
          IN  /\ DOMAIN items' = DOMAIN items
              /\ \A y \in DOMAIN items :
                    /\ y # x => items'[y].folded = items[y].folded
                    /\ (y # x /\ y \notin anc) => items'[y].total = items[y].total
              /\ IF items[x].folded
                 THEN /\ items'[x].total = ChildRows(items, x)
                      /\ \A a \in anc : items'[a].total = items[a].total + ChildRows(items, x)
                 ELSE /\ items'[x].total = 0
                      /\ \A a \in anc : items'[a].total = items[a].total - items[x].total ]_vars

\* a toggle has just expanded an item below Root that has children, so the
\* totals of its ancestors have grown, while another item is folded
C22_Witness ==
    /\ pc = "tui"
    /\ last = "toggle"
    /\ tv.Curr # tv.Root
    /\ items[tv.Curr].child # nil
    /\ ~items[tv.Curr].folded
    /\ items[tv.Curr].total > 0
    /\ \E y \in DOMAIN items : y # tv.Curr /\ items[y].folded

\* C23 as stated: the toggle command flips the folded state of the selected
\* item, whatever item it is applied to and whatever the fold state of the
\* other items.
C23_ToggleFlips ==
    [][ (pc = "tui" /\ pc' = "tui" /\ last' = "toggle") =>
          items'[tv.Curr].folded = ~items[tv.Curr].folded ]_vars

\* C23 as amended: the toggle command flips the folded state of the
\* selected item if it has a child, whatever the fold state of the other
\* items, and changes nothing if it has none.
C23_ToggleFlipsParents ==
    [][ (pc = "tui" /\ pc' = "tui" /\ last' = "toggle") =>
          IF items[tv.Curr].child # nil
          THEN items'[tv.Curr].folded = ~items[tv.Curr].folded
          ELSE items' = items /\ ~items[tv.Curr].folded ]_vars

\* a toggle has just folded an item below Root while another item with
\* children was folded and a third one unfolded
C23_Witness ==
    /\ pc = "tui"
    /\ last = "toggle"
    /\ tv.Curr # tv.Root
    /\ items[tv.Curr].child # nil
    /\ items[tv.Curr].folded
    /\ \E y, z \in DOMAIN items :
          /\ y # tv.Curr /\ items[y].child # nil /\ items[y].folded
          /\ z # tv.Curr /\ items[z].child # nil /\ ~items[z].folded

(***************************************************************************)
(* Properties of the cursor commands                                       *)
(***************************************************************************)
\* C24: step-down on the last row (idx = Root.total) and step-up on the
\* first row (idx = 0) change nothing; otherwise step-down selects the next
\* row and moves the first visible row on by one exactly when the selection
\* would leave the bottom of the viewport, and step-up selects the previous
\* row and makes it the first visible row exactly when the selection would
\* leave the top.
C24_StepDownUp ==
    [][ (pc = "tui" /\ last' \in {"down", "up"}) =>
          /\ pc' = "tui"
          /\ IF last' = "down"
             THEN IF tv.idx = items[tv.Root].total THEN tv' = tv
                  ELSE /\ tv'.idx = tv.idx + 1
                       /\ tv'.Curr = Rows[tv.idx + 2]
                       /\ IF tv.idx + 1 > tv.off + tv.rows - 1
                          THEN tv'.off = tv.off + 1 /\ tv'.Top = Rows[tv.off + 2]
                          ELSE tv'.off = tv.off /\ tv'.Top = tv.Top
             ELSE IF tv.idx = 0 THEN tv' = tv
                  ELSE /\ tv'.idx = tv.idx - 1
                       /\ tv'.Curr = Rows[tv.idx]
                       /\ IF tv.idx - 1 < tv.off
                          THEN tv'.off = tv'.idx /\ tv'.Top = tv'.Curr
                          ELSE tv'.off = tv.off /\ tv'.Top = tv.Top ]_vars

\* C25: page-up with the selection not on the first visible row moves the
\* selection to the first visible row and keeps the first visible row; with
\* the selection on the first visible row it moves the selection back by
\* rows, clamped at 0, and makes the selection the first visible row.
C25_PageUp ==
    [][ (pc = "tui" /\ last' = "pageup") =>
          /\ pc' = "tui"
          /\ IF tv.idx # tv.off
             THEN /\ tv'.idx = tv.off
                  /\ tv'.Curr = tv.Top
                  /\ tv'.Curr = Rows[tv.off + 1]
                  /\ tv'.off = tv.off
                  /\ tv'.Top = tv.Top
             ELSE /\ tv'.idx = Max(tv.idx - tv.rows, 0)
                  /\ tv'.Curr = Rows[tv'.idx + 1]
                  /\ tv'.off = tv'.idx
                  /\ tv'.Top = tv'.Curr ]_vars

\* a page-up has left the selection on the first visible row, which is
\* neither Root nor the last row, in a pane of more than one row
C25_Witness ==
    /\ pc = "tui"
    /\ last = "pageup"
    /\ tv.idx = tv.off
    /\ tv.idx > 0
    /\ tv.idx < items[tv.Root].total
    /\ tv.rows > 1
    /\ tv.Top = tv.Curr
    /\ tv.Curr = Rows[tv.idx + 1]

\* C26: from any state the home command sets idx = 0 and off = 0 with the
\* selection and the first visible row on Root; the end command sets
\* idx = Root.total and off = max(0, Root.total - rows + 1), puts the
\* selection on the last row of the tree and the first visible row on the
\* item idx - off rows before it.
C26_HomeEnd ==
    [][ (pc = "tui" /\ last' \in {"home", "end"}) =>
          /\ pc' = "tui"
          /\ IF last' = "home"
             THEN /\ tv'.idx = 0 /\ tv'.off = 0
                  /\ tv'.Curr = tv.Root /\ tv'.Top = tv.Root
             ELSE /\ tv'.idx = items[tv.Root].total
                  /\ tv'.off = Max(0, items[tv.Root].total - tv.rows + 1)
                  /\ tv'.Curr = Rows[Len(Rows)]
                  /\ tv'.Top = Rows[Len(Rows) - (tv'.idx - tv'.off)]
          /\ tv'.Root = tv.Root /\ tv'.rows = tv.rows /\ tv'.pos = tv.pos ]_vars

\* the end command has put the selection on the last row of a tree with a
\* folded item, the first visible row being neither Root nor the selection
C26_Witness ==
    /\ pc = "tui"
    /\ last = "end"
    /\ tv.idx = items[tv.Root].total
    /\ tv.Curr = Rows[Len(Rows)]
    /\ tv.off > 0
    /\ tv.off < tv.idx
    /\ tv.Top = Rows[tv.off + 1]
    /\ \E x \in DOMAIN items : items[x].folded

(***************************************************************************)
(* Properties of the metadata table                                        *)
(***************************************************************************)
\* the entries of a dynamic section other than the DT_NULL ones
NonNull(entries) == SelectSeq(entries, LAMBDA e : e.tag # "DT_NULL")

\* every file of the run can be loaded and shown
SoundWorld ==
    /\ \A p \in {RootPath} \cup {LibPath(n) : n \in LibNames} :
          /\ ~ListedFailure(p)
          /\ world.fs[p].dynstr
          /\ ~BadOffset(world.fs[p])
    /\ world.fs[RootPath].interp

\* C27: the dynamic entries stored for a library are one entry per non-null
\* (tag, value) pair of its dynamic section, in on-disk order, with the
\* string at the offset for the needed-library, RPATH, RUNPATH and soname
\* tags and the raw value for every other tag; a tag of no known name is
\* kept with its raw value, is not dropped and makes no run fail; the
\* dynamic-tag view has one row per stored entry, in the same order.
C27_DynamicEntries ==
    /\ \A n \in DOMAIN deps :
          LET f == world.fs[PathOfName(n)]
              pairs == NonNull(f.entries)
          IN  /\ Len(deps[n].dyns) = Len(pairs)
              /\ \A i \in DOMAIN pairs :
                    /\ deps[n].dyns[i].tag = pairs[i].tag
                    /\ deps[n].dyns[i].val =
                          IF pairs[i].tag \in StringTags THEN f.strtab[pairs[i].val]
                          ELSE pairs[i].val
              /\ pc = "tui" =>
                    /\ Len(dinfo[n].Root) = Len(pairs) + 3
                    /\ \A i \in DOMAIN pairs : dinfo[n].Root[i + 3].node.label = pairs[i].tag
    /\ SoundWorld => pc \notin {"exit1", "exit2"}

\* the interactive view shows a library whose dynamic section has a tag of
\* no known name in front of a needed-library entry
C27_Witness ==
    /\ pc = "tui"
    /\ \E n \in DOMAIN deps :
          /\ Len(deps[n].dyns) >= 3
          /\ deps[n].dyns[1] = [tag |-> UnknownTag, val |-> 7]
          /\ deps[n].dyns[2].tag = "DT_NEEDED"
          /\ deps[n].dyns[2].val \in {<<l>> : l \in LibNames}
          /\ dinfo[n].Root[4].node.label = UnknownTag

\* the first node of the given name among the dequeued ones
FirstDequeued(name) ==
    dequeued[CHOOSE k \in DOMAIN dequeued :
                /\ nodes[dequeued[k]].name = name
                /\ \A j \in 1..(k - 1) : nodes[dequeued[j]].name # name]

\* C28: a metadata record is written once per name, when the first node of
\* that name is dequeued, and is not overwritten afterwards; dequeuing a
\* node whose name has a record leaves the table, the empty child list of
\* the node and the rest of the worklist as they are.  So for every name at
\* most one node of the tree has children, the first one dequeued, and
\* every other node of that name is a leaf.
C28_RecordWrittenOnce ==
    /\ [](\A n \in DOMAIN nodes :
             nodes[n].child # <<>> =>
                 /\ nodes[n].name \in {nodes[dequeued[k]].name : k \in DOMAIN dequeued}
                 /\ n = FirstDequeued(nodes[n].name))
    /\ [][ (pc = "loop" /\ deps_list # <<>>) =>
              LET dep == Head(deps_list)
                  name == nodes[dep].name
              IN  /\ \A n \in DOMAIN deps : n \in DOMAIN deps' /\ deps'[n] = deps[n]
                  /\ IF name \in DOMAIN deps
                     THEN /\ deps' = deps
                          /\ nodes' = nodes
                          /\ nodes[dep].child = <<>>
                          /\ deps_list' = Tail(deps_list)
                          /\ pc' = "loop"
                     ELSE /\ \A k \in DOMAIN dequeued : nodes[dequeued[k]].name # name
                          /\ pc' = "loop" => DOMAIN deps' = DOMAIN deps \cup {name} ]_vars

\* a completed build in which a name with needed libraries occurs twice:
\* the node dequeued first has the children, the other one is a leaf
C28_Witness ==
    /\ BuildCompleted
    /\ \E i, j \in DOMAIN dequeued :
          /\ i < j
          /\ nodes[dequeued[i]].name = nodes[dequeued[j]].name
          /\ nodes[dequeued[i]].child # <<>>
          /\ nodes[dequeued[j]].child = <<>>
          /\ deps[nodes[dequeued[j]].name].libs # <<>>

\* the nodes form a tree rooted at deps_root: every other node is a child of
\* its parent, which was allocated before it, and of no other node
IsTree(ns) ==
    /\ ns[deps_root].parent = nil
    /\ \A n \in DOMAIN ns \ {deps_root} :
          /\ ns[n].parent \in 1..(n - 1)
          /\ \E i \in DOMAIN ns[ns[n].parent].child : ns[ns[n].parent].child[i] = n
    /\ \A m \in DOMAIN ns :
          \A i, j \in DOMAIN ns[m].child :
              /\ ns[m].child[i] \in DOMAIN ns
              /\ ns[ns[m].child[i]].parent = m
              /\ i # j => ns[m].child[i] # ns[m].child[j]

\* the worklist loop has ended
LoopEnded == pc = "loop" /\ deps_list = <<>>

\* C29: for every dependency relation over the library names, cycles and
\* self-dependencies included, if every library can be opened and parsed
\* the worklist loop ends with an empty worklist, and the nodes built are a
\* finite tree: no node is its own ancestor.  No node is popped twice, and
\* at the end every node has been popped.
C29_LoopTerminates ==
    /\ [](nodes # <<>> => IsTree(nodes))
    /\ [](\A i, j \in DOMAIN dequeued : i # j => dequeued[i] # dequeued[j])
    /\ (pc = "main" /\ SoundWorld) ~> (LoopEnded /\ IsTree(nodes) /\ Len(dequeued) = Len(nodes))

\* the loop has ended on a relation in which a library needs itself and
\* two libraries need each other: a node has the name of its parent and a
\* node has the name of its grandparent
C29_Witness ==
    /\ LoopEnded
    /\ SoundWorld
    /\ \E n, m \in DOMAIN nodes :
          /\ nodes[n].parent # nil
          /\ nodes[nodes[n].parent].name = nodes[n].name
          /\ nodes[m].parent # nil
          /\ nodes[nodes[m].parent].parent # nil
          /\ nodes[nodes[nodes[m].parent].parent].name = nodes[m].name

(***************************************************************************)
(* Properties of the expansion of include lines                            *)
(***************************************************************************)
\* the existing files that some include line of file f matches
IncludedBy(w, f) ==
    UNION {Range(Glob(w, SubSeq(t, 9, Len(t))).libs) :
              t \in {u \in Range(w.etc[f]) : HasPrefix(u, KwInclude) /\ Len(u) >= 8}}

RECURSIVE IncludeClosure(_, _)
IncludeClosure(w, S) ==
    IF S \cup UNION {IncludedBy(w, f) : f \in S} = S THEN S
    ELSE IncludeClosure(w, S \cup UNION {IncludedBy(w, f) : f \in S})

\* the files read while f is read, f itself not counted
ReachedFrom(w, f) == IncludeClosure(w, IncludedBy(w, f))

\* f includes itself, directly or through a chain of included files
OnCycle(w, f) == f \in ReachedFrom(w, f)

\* reading /etc/ld.so.conf comes to a file that includes itself
ReadsCycle(w) == \E f \in {LdSoConf} \cup ReachedFrom(w, LdSoConf) : OnCycle(w, f)

Acyclic(w) == \A f \in DOMAIN w.etc : ~OnCycle(w, f)

\* the directory lines of file name in reading order, include lines being
\* followed through at most k nested files
RECURSIVE Expansion(_, _, _)
Expansion(w, name, k) ==
    IF k = 0 \/ name \notin DOMAIN w.etc THEN <<>>
    ELSE Flatten([i \in DOMAIN w.etc[name] |->
            IF Len(TrimSpace(w.etc[name][i])) = 0 \/ HasPrefix(w.etc[name][i], KwHash) THEN <<>>
            ELSE IF HasPrefix(w.etc[name][i], KwInclude)
            THEN Flatten([j \in DOMAIN Glob(w, SubSeq(w.etc[name][i], 9, Len(w.etc[name][i]))).libs |->
                     Expansion(w, Glob(w, SubSeq(w.etc[name][i], 9, Len(w.etc[name][i]))).libs[j], k - 1)])
            ELSE <<w.etc[name][i]>>])

Paths(lines) == [i \in DOMAIN lines |-> PathOf(lines[i])]

\* an include line is followed where k files are open already
RECURSIVE RefusedAt(_, _, _)
RefusedAt(w, name, k) ==
    /\ name \in DOMAIN w.etc
    /\ \/ k >= w.nofile
       \/ \E g \in IncludedBy(w, name) : RefusedAt(w, g, k + 1)

DeclaredDirs(f, tag) ==
    [i \in DOMAIN SelectSeq(f.entries, LAMBDA e : e.tag = tag) |->
        f.strtab[SelectSeq(f.entries, LAMBDA e : e.tag = tag)[i].val]]

\* the candidate paths of name when node p asks for it: the directories
\* declared by the file of p and the directories of the run, no others
CandidatesFor(name, p) ==
    [i \in DOMAIN (DeclaredDirs(world.fs[deps[nodes[p].name].path], "DT_RPATH")
                      \o world.envlib
                      \o DeclaredDirs(world.fs[deps[nodes[p].name].path], "DT_RUNPATH")
                      \o world.conflib \o deflib) |->
        Join((DeclaredDirs(world.fs[deps[nodes[p].name].path], "DT_RPATH")
                 \o world.envlib
                 \o DeclaredDirs(world.fs[deps[nodes[p].name].path], "DT_RUNPATH")
                 \o world.conflib \o deflib)[i], name)]

\* the first candidate that exists, as an absolute path
FirstExisting(cands) ==
    Abs(world, cands[CHOOSE i \in DOMAIN cands :
                         Exists(cands[i]) /\ \A j \in 1..(i - 1) : ~Exists(cands[j])])

LastDequeued == dequeued[Len(dequeued)]

\* C31: a name is resolved at most once per build, when its first
\* occurrence is dequeued, and only the RPATH and RUNPATH entries of the
\* direct parent of that occurrence are consulted: the path recorded for a
\* name is the first existing candidate under the directories of that
\* parent, the build ends when none exists there, whatever grandparents
\* and the parents of later occurrences declare, and the recorded path is
\* never replaced.
C31_ResolvedByFirstParent ==
    /\ [](\A name \in DOMAIN deps :
             name # nodes[deps_root].name =>
                 /\ \E i \in DOMAIN CandidatesFor(name, nodes[FirstDequeued(name)].parent) :
                        Exists(CandidatesFor(name, nodes[FirstDequeued(name)].parent)[i])
                 /\ deps[name].path =
                        FirstExisting(CandidatesFor(name, nodes[FirstDequeued(name)].parent)))
    /\ []((pc = "exit1" /\ dequeued # <<>> /\ nodes[LastDequeued].parent # nil) =>
             /\ nodes[LastDequeued].name \notin DOMAIN deps
             /\ LastDequeued = FirstDequeued(nodes[LastDequeued].name)
             /\ \A i \in DOMAIN CandidatesFor(nodes[LastDequeued].name, nodes[LastDequeued].parent) :
                    ~Exists(CandidatesFor(nodes[LastDequeued].name, nodes[LastDequeued].parent)[i]))
    /\ [][\A name \in DOMAIN deps :
              name \in DOMAIN deps' /\ deps'[name].path = deps[name].path]_vars

\* d has been found in /lib for its first occurrence, whose parent
\* declares nothing, although d also lies in a directory that the root
\* declares and in one that the parent of its second occurrence declares
C31_Witness ==
    /\ pc = "loop" /\ deps_list = <<>>
    /\ <<"d">> \in DOMAIN deps
    /\ deps[<<"d">>].path = LibPath("d")
    /\ DeclaredDirs(world.fs[deps[nodes[nodes[FirstDequeued(<<"d">>)].parent].name].path], "DT_RPATH") = <<>>
    /\ DeclaredDirs(world.fs[deps[nodes[nodes[FirstDequeued(<<"d">>)].parent].name].path], "DT_RUNPATH") = <<>>
    /\ DeclaredDirs(world.fs[RootPath], "DT_RPATH") = <<DirR1>>
    /\ Join(DirR1, <<"d">>) \in DOMAIN world.fs
    /\ \E n \in DOMAIN nodes :
          /\ nodes[n].name = <<"d">>
          /\ n # FirstDequeued(<<"d">>)
          /\ nodes[nodes[n].parent].parent # nil
          /\ DeclaredDirs(world.fs[deps[nodes[nodes[n].parent].name].path], "DT_RPATH") = <<DirR2>>
          /\ Join(DirR2, <<"d">>) \in DOMAIN world.fs

\* C32: whenever a non-root node is dequeued the record of its parent's
\* name is in the table, so findLib reads the parent's complete list of
\* dynamic entries, never the empty default: every node other than the
\* root, from its creation on, has a parent whose name has a record that
\* holds every non-null entry of the parent's file, its RPATH and RUNPATH
\* directories included.
C32_ParentRecorded ==
    \A n \in DOMAIN nodes :
        nodes[n].parent # nil =>
            /\ nodes[nodes[n].parent].name \in DOMAIN deps
            /\ Len(deps[nodes[nodes[n].parent].name].dyns)
                  = Len(NonNull(world.fs[deps[nodes[nodes[n].parent].name].path].entries))
            /\ \A tag \in {"DT_RPATH", "DT_RUNPATH"} :
                  TaggedDirs(deps[nodes[nodes[n].parent].name].dyns, tag)
                      = DeclaredDirs(world.fs[deps[nodes[nodes[n].parent].name].path], tag)

\* a node below a library has been dequeued and its name has been found
\* in the RPATH directory that its parent declares
C32_Witness ==
    \E k \in DOMAIN dequeued :
        /\ nodes[dequeued[k]].parent # nil
        /\ nodes[nodes[dequeued[k]].parent].parent # nil
        /\ nodes[dequeued[k]].name \in DOMAIN deps
        /\ TaggedDirs(deps[nodes[nodes[dequeued[k]].parent].name].dyns, "DT_RPATH") = <<DirR2>>
        /\ deps[nodes[dequeued[k]].name].path = Join(DirR2, nodes[dequeued[k]].name)

(***************************************************************************)
(* Properties of the detail pane and of the cursor                         *)
(***************************************************************************)
Modes == {MODE_FILE, MODE_SYMBOL, MODE_DYNAMIC, MODE_SECTION}

\* C33: when the build has completed every node of the dependency tree has
\* a metadata record for its name and so an entry in each of the four
\* detail maps; and in the interactive view, at its start and after every
\* cursor-move and mode-switch handler, the Root of the detail pane is the
\* detail tree stored for (name of the selected node, current mode), which
\* is not nil.
C33_DetailRoot ==
    pc = "tui" =>
        /\ \A n \in DOMAIN nodes :
              /\ nodes[n].name \in DOMAIN deps
              /\ \A md \in Modes : nodes[n].name \in DOMAIN CacheOf(md, finfo, yinfo, dinfo, sinfo)
        /\ tv.Curr \in DOMAIN items
        /\ iv.Root = CacheOf(mode, finfo, yinfo, dinfo, sinfo)[SelectedName(items, tv)].Root
        /\ iv.Root # NilDetail

\* the section view is on and a move has taken the cursor to a leaf whose
\* name another node, the one with the children, has too: the pane shows
\* the section tree of that name
C33_Witness ==
    /\ pc = "tui"
    /\ last \in MoveCommands
    /\ mode = MODE_SECTION
    /\ tv.Curr \in DOMAIN items
    /\ \E n \in DOMAIN nodes :
          /\ n # items[tv.Curr].node
          /\ nodes[n].name = SelectedName(items, tv)
          /\ nodes[n].child # <<>>
    /\ iv.Root = sinfo[SelectedName(items, tv)].Root
    /\ iv.Root # finfo[SelectedName(items, tv)].Root

\* none of the ancestors of item x is folded
Visible(its, x) == \A a \in Ancestors(its, x) : ~its[a].folded

\* C34: with a fixed row count rows >= 1, after any sequence of step, page,
\* home, end and toggle commands Curr is not nil and is the idx-th row of
\* the walk from Root by nextItem, Top is not nil and is the off-th row,
\* and no handler dereferences nil; so Curr is always visible (none of
\* its ancestors is folded) and toggle is applied to a visible item only.
C34_CursorOnRow ==
    /\ pc # "exit2"
    /\ pc = "tui" =>
          /\ tv.rows >= 1
          /\ tv.Curr \in DOMAIN items
          /\ tv.Top \in DOMAIN items
          /\ tv.idx + 1 \in DOMAIN Rows
          /\ tv.off + 1 \in DOMAIN Rows
          /\ Rows[tv.idx + 1] = tv.Curr
          /\ Rows[tv.off + 1] = tv.Top
          /\ Visible(items, tv.Curr)
          /\ Visible(items, tv.Top)

\* a subtree above the end of the list has been folded with the cursor
\* below the first row of a scrolled viewport, and the cursor has then
\* been moved up past the top row
C34_Witness ==
    /\ pc = "tui"
    /\ last = "up"
    /\ tv.off > 0
    /\ tv.Top = tv.Curr
    /\ tv.idx < items[tv.Root].total
    /\ \E x \in DOMAIN items : items[x].folded /\ x # tv.Root /\ x # tv.Curr

\* C35: no command changes the viewport of the detail pane or a cached
\* viewport: in every state of the interactive loop (idx, off, pos) of the
\* detail pane is (0, 0, 0) and so is (idx, off, pos) of every entry of
\* the four per-mode maps, saveInfoView changing a local copy only and no
\* handler moving the detail pane.
C35_DetailViewportZero ==
    shown = "tui" =>
        /\ Viewport(iv) = <<0, 0, 0>>
        /\ \A md \in Modes :
              \A k \in DOMAIN CacheOf(md, finfo, yinfo, dinfo, sinfo) :
                  Viewport(CacheOf(md, finfo, yinfo, dinfo, sinfo)[k]) = <<0, 0, 0>>

\* the dependency pane has been scrolled down and to the right, the mode
\* has been switched and the cursor moved on, and the viewport of the
\* detail pane is where it was at the start
C35_Witness ==
    /\ pc = "tui"
    /\ last \in MoveCommands
    /\ mode = MODE_DYNAMIC
    /\ tv.idx > 0 /\ tv.off > 0 /\ tv.pos > 0
    /\ Viewport(iv) = <<0, 0, 0>>
    /\ Viewport(dinfo[nodes[deps_root].name]) = <<0, 0, 0>>
====
